---- MODULE Spec2Model ----
(***************************************************************************)
(* A model of the CLI-driven container lifecycle engine, YoukiCliRuntime   *)
(* (container_runtime/src/youki_cli.rs): the Registry (the primary map     *)
(* `containers` and the node index `containers_by_node`, each behind its   *)
(* own RwLock), the external runtime binary reached through exec_youki,    *)
(* and the lifecycle operations init_node, create_container,               *)
(* stop_container and remove_container run by concurrent tasks.            *)
(*                                                                         *)
(* One step of the model is the code of one task between two suspension    *)
(* points (.await): an external command, a filesystem call, a sleep or a   *)
(* lock acquisition, together with the synchronous code that follows it.   *)
(* The external runtime and the filesystem answer nondeterministically.    *)
(* Time is counted per stop_container call, in polling intervals (100 ms). *)
(***************************************************************************)
EXTENDS Integers, Sequences, FiniteSets, TLC

\* ------------------------------------------------------------------ bounds

\* How many identifiers Uuid::new_v4 hands out (create_container calls).
MaxUuid == 2

\* YoukiCliConfig.command_timeout and .stop_timeout, in polling intervals.
command_timeout == 1
stop_timeout == 2

\* The polling interval of stop_container's wait loop: the unit of time.
PollInterval == 1

\* The concurrent callers of the runtime, the nodes and the container names.
Tasks == {"t1", "t2"}
NodeIds == {"n1"}
Names == {"web"}

\* The caller whose calls are watched: what the external tool answered its
\* calls and what they returned is kept until its next call.
Observers == {"t3"}

NoTask == "none"
NoId == <<>>
NoNode == "none"

\* A clock saturates here; the code never lets a call's clock get this far.
ClockCap == stop_timeout + PollInterval + 3 * command_timeout + 2

Sat(n) == IF n > ClockCap THEN ClockCap ELSE n

VARIABLES
    containers,          \* the primary map: identifier -> ContainerState
    containers_by_node,  \* the node index: node id -> list of identifiers
    containers_lock,     \* the task holding the write guard of `containers`
    bundles,             \* the bundle directories that exist on disk
    next_uuid,           \* the uuid generator: the next fresh uuid
    task,                \* each task's operation, position and locals
    generated,           \* history: the identifiers generated, in call order
    create_log,          \* history: per identifier, the steps of its create call
    remove_ok,           \* history: identifiers a remove_container returned Ok for
    early_remove,        \* history: identifiers removed before create returned
    state_store,         \* the API's state store: workload id -> definition
    workload_rx,         \* the receiving half of the orchestrator channel
    submitted,           \* history: workload ids sent on the channel
    next_workload,       \* the uuid generator of the API: the next fresh uuid
    handler,             \* each API request handler's position and locals
    log_streams,         \* container id -> LogStreamHandle
    watchers,            \* the log watcher tasks that are running
    next_watcher         \* the number the next spawned watcher task gets

\* The container runtime's state, the API server's, and the log streams.
runtime == <<containers, containers_by_node, containers_lock, bundles,
             next_uuid, task, generated, create_log, remove_ok, early_remove>>

api == <<state_store, workload_rx, submitted, next_workload, handler>>

follow == <<log_streams, watchers, next_watcher>>

vars == <<runtime, api, follow>>

\* ------------------------------------------------------------- functions

Put(f, k, v) == [x \in DOMAIN f \cup {k} |-> IF x = k THEN v ELSE f[x]]

Drop(f, k) == [x \in DOMAIN f \ {k} |-> f[x]]

RetainNothing(list, id) == <<>>

Retain(list, id) == SelectSeq(list, LAMBDA x : x # id)

Range(s) == {s[i] : i \in 1..Len(s)}

\* format!("{}-{}", config.name, Uuid::new_v4())
ContainerIdNoUuid(name, uuid) == <<name, 0>>

ContainerId(name, uuid) == <<name, uuid>>

\* Option::None; Some(x) is <<x>>.
None == <<>>

\* bundle_root / node_id / container_id
bundle_path(node_id, container_id) == <<node_id, container_id>>

\* ------------------------------------------------- the external runtime

\* stderr of the external tool, as words; str::contains on word boundaries.
StderrTexts ==
    { <<"container", "does", "not", "exist">>,
      <<"container", "not", "found">>,
      <<"container", "not", "running">>,
      <<"no", "such", "process">>,
      <<"permission", "denied">> }

Contains(text, phrase) ==
    \E i \in 1..(Len(text) - Len(phrase) + 1) :
        SubSeq(text, i, i + Len(phrase) - 1) = phrase

\* The status strings of a state document, and a stdout that is no JSON.
Statuses == {"created", "running", "stopped"}
Malformed == "malformed"

Outputs ==
    [success : {TRUE}, stdout : Statuses \cup {Malformed}, stderr : {<<>>}]
    \cup [success : {FALSE}, stdout : {Malformed}, stderr : StderrTexts]

NoOutput == [success |-> FALSE, stdout |-> Malformed, stderr |-> <<>>]

\* What the external tool does when it is run: it cannot be spawned, or it
\* exits with an output after dur time units; command_timeout + 1 stands for
\* every longer run, one that never exits included.
Runs ==
    [kind : {"exits"}, out : Outputs, dur : 0..(command_timeout + 1)]
    \cup {[kind |-> "spawn_error", out |-> NoOutput, dur |-> 0]}

\* cmd_str: format!("youki {}", args.join(" ")).
CommandLine(args) == <<"youki">> \o args

\* exec_youki: the command's output within command_timeout, a Timeout with
\* the command line when command_timeout elapses first, or an I/O error when
\* the command cannot be spawned.
exec_youki(args, run) ==
    IF run.kind = "spawn_error"
    THEN [tag |-> "Io", out |-> NoOutput, dur |-> 0, cmd |-> <<>>]
    ELSE IF run.dur >= command_timeout
         THEN [tag |-> "Timeout", out |-> NoOutput, dur |-> command_timeout,
               cmd |-> CommandLine(args)]
         ELSE [tag |-> "Output", out |-> run.out, dur |-> run.dur,
               cmd |-> <<>>]

\* What a caller of exec_youki matches on, whatever the arguments were.
ExecResults ==
    { [tag |-> x.tag, out |-> x.out, dur |-> x.dur] :
        x \in { exec_youki(<<>>, run) : run \in Runs } }

youki_create(r) ==
    IF r.tag # "Output" THEN r.tag
    ELSE IF ~r.out.success THEN "CommandFailed" ELSE "Ok"

youki_start(r) ==
    IF r.tag # "Output" THEN r.tag
    ELSE IF ~r.out.success THEN "CommandFailed" ELSE "Ok"

youki_kill_strict(r) ==
    IF r.tag # "Output" THEN r.tag
    ELSE IF ~r.out.success THEN "CommandFailed" ELSE "Ok"

youki_kill(r) ==
    IF r.tag # "Output" THEN r.tag
    ELSE IF ~r.out.success
            /\ ~Contains(r.out.stderr, <<"not", "running">>)
            /\ ~Contains(r.out.stderr, <<"no", "such", "process">>)
         THEN "CommandFailed"
         ELSE "Ok"

youki_delete_strict(r) ==
    IF r.tag # "Output" THEN r.tag
    ELSE IF ~r.out.success THEN "CommandFailed" ELSE "Ok"

youki_delete_uniform(r) ==
    IF r.tag # "Output" THEN r.tag
    ELSE IF ~r.out.success
            /\ ~Contains(r.out.stderr, <<"not", "exist">>)
            /\ ~Contains(r.out.stderr, <<"not", "found">>)
            /\ ~Contains(r.out.stderr, <<"not", "running">>)
            /\ ~Contains(r.out.stderr, <<"no", "such", "process">>)
         THEN "CommandFailed"
         ELSE "Ok"

youki_delete(r) ==
    IF r.tag # "Output" THEN r.tag
    ELSE IF ~r.out.success
            /\ ~Contains(r.out.stderr, <<"not", "exist">>)
            /\ ~Contains(r.out.stderr, <<"not", "found">>)
         THEN "CommandFailed"
         ELSE "Ok"

\* The result of youki_state: Ok with the status of the document, or an error
\* with the text it carries (the stderr of a failed command).
youki_state(r) ==
    IF r.tag # "Output" THEN [tag |-> r.tag, status |-> "", message |-> <<>>]
    ELSE IF ~r.out.success
         THEN IF Contains(r.out.stderr, <<"not", "exist">>)
                 \/ Contains(r.out.stderr, <<"not", "found">>)
              THEN [tag |-> "ContainerNotFound", status |-> "",
                    message |-> <<>>]
              ELSE [tag |-> "CommandFailed", status |-> "",
                    message |-> r.out.stderr]
         ELSE IF r.out.stdout = Malformed
              THEN [tag |-> "InvalidState", status |-> "", message |-> <<>>]
              ELSE [tag |-> "Ok", status |-> r.out.stdout, message |-> <<>>]

\* ------------------------------------------------------------------ tasks

Idle ==
    [pc |-> "idle", op |-> "none", id |-> NoId, node |-> NoNode,
     clock |-> 0, deadline |-> 0, log |-> <<>>, sigkill_at |-> 0,
     found |-> "none", ids |-> <<>>, value |-> <<>>, warned |-> <<>>,
     result |-> "none"]

\* A call starts from the task's cleared locals.
Call(op, id, node, pc) ==
    [Idle EXCEPT !.pc = pc, !.op = op, !.id = id, !.node = node]

\* A call returns: the task is idle again. After stop_container it keeps the
\* call's locals and result until its next call; what the other operations
\* returned is in create_log and remove_ok.
Return(loc, result) ==
    IF loc.op = "stop" THEN [loc EXCEPT !.pc = "idle", !.result = result]
    ELSE Idle

Keep(loc, result) == [loc EXCEPT !.pc = "idle", !.result = result]

Done(t, loc, result) ==
    IF t \in Observers THEN Keep(loc, result) ELSE Return(loc, result)

\* What the external tool answered a command: exit status zero, a non-zero
\* exit that says the container is gone, another non-zero exit, no answer
\* within command_timeout, or the command could not be run.
GoneTexts ==
    { <<"container", "does", "not", "exist">>, <<"container", "not", "found">> }

Answer(r) ==
    IF r.tag = "Timeout" THEN "timeout"
    ELSE IF r.tag = "Io" THEN "io"
    ELSE IF r.out.success THEN "ok"
    ELSE IF r.out.stderr \in GoneTexts THEN "gone"
    ELSE "failed"

\* The log of a watched call that has run one external command.
Noted(t, cmd, answer) == IF t \in Observers THEN << <<cmd, answer>> >> ELSE <<>>

\* The identifiers a caller can name: those some create_container generated.
KnownIds == Range(generated)

CreatePending(id) ==
    /\ id \in DOMAIN create_log
    /\ create_log[id][Len(create_log[id])].ev # "return"

Ev(ev, ok) == [ev |-> ev, ok |-> ok]

Logged(id, ev) == create_log' = [create_log EXCEPT ![id] = Append(@, ev)]

LoggedReturn(id, ev, ok) ==
    create_log' = [create_log EXCEPT ![id] = @ \o <<ev, Ev("return", ok)>>]

\* ------------------------------------------------------------- init_node

\* create_dir_all on the node's bundle directory: it makes the directory,
\* finds it already there, or fails.
DirAnswers == {"created", "exists", "failed"}

\* by_node.entry(node_id).or_insert_with(Vec::new)
InsertEmpty(index, node) == Put(index, node, <<>>)

OrInsertEmpty(index, node) ==
    IF node \in DOMAIN index THEN index ELSE Put(index, node, <<>>)

\* init_node: create_dir_all, then the node's index list unless it has one.
InitNode(t, node) ==
    /\ task[t].pc = "idle"
    /\ \E dir \in DirAnswers :
       LET dir_ok == dir # "failed" IN
        /\ containers_by_node' =
              IF dir_ok THEN OrInsertEmpty(containers_by_node, node)
              ELSE containers_by_node
        /\ task' = [task EXCEPT ![t] =
              Done(t, [Call("init_node", NoId, node, "idle") EXCEPT
                          !.log = Noted(t, "create_dir_all", dir)],
                   IF dir_ok THEN "Ok" ELSE "Err")]
    /\ UNCHANGED <<api, follow,
                   containers, containers_lock, bundles, next_uuid, generated,
                   create_log, remove_ok, early_remove>>

\* ------------------------------------------------------ create_container

\* The `?` after youki_create and after youki_start: where the call goes on.
AfterYoukiCreateIgnoringError(res) == "create_youki_start"

AfterYoukiCreate(res) == IF res = "Ok" THEN "create_youki_start" ELSE "return"

AfterYoukiStartIgnoringError(res) == "create_insert"

AfterYoukiStart(res) == IF res = "Ok" THEN "create_insert" ELSE "return"

\* The steps before the external commands, none of which reads or writes
\* what another call uses: the identifier, the bundle directory, the image's
\* rootfs, its symlink into the bundle, and OciBundleBuilder::build.
PrepareSteps == <<"bundle_dir", "image", "rootfs_link", "bundle_build">>

\* resource_requests.cpu_cores, a float: NaN, or v halves of a core.
NaN == [nan |-> TRUE, v |-> 0]

MaxCores == 2

CpuCores == {NaN} \cup [nan : {FALSE}, v : (0 - 1)..MaxCores]

\* resource_requests.memory_mb, an unsigned integer.
MaxMemory == 2

MemoryMb == 0..MaxMemory

\* cpu_cores > 0.0 on floats: false when a side is NaN.
GeZero(x) == ~x.nan /\ x.v >= 0

GtZero(x) == ~x.nan /\ x.v > 0

\* What OciBundleBuilder is given before build(): with_cpu_limit and
\* with_memory_limit, each under its own condition.
Builder(cpu_cores, memory_mb) ==
    [cpu_limit |-> IF GtZero(cpu_cores) THEN <<cpu_cores>> ELSE None,
     memory_limit |-> IF memory_mb > 0 THEN <<memory_mb>> ELSE None]

\* A watched call's log of its resource request and, once the prepare steps
\* reached the builder, of the limits the builder received.
Requested(t, failed, cpu_cores, memory_mb) ==
    Noted(t, "request", <<cpu_cores, memory_mb>>)
    \o (IF failed \in {"none", "bundle_build"}
        THEN Noted(t, "builder", Builder(cpu_cores, memory_mb))
        ELSE <<>>)

\* The identifier is generated and the bundle prepared; the first step that
\* fails, if any, ends the call with its error.
CreateContainer(t, name, node) ==
    /\ task[t].pc = "idle"
    /\ next_uuid <= MaxUuid
    /\ LET id == ContainerId(name, next_uuid) IN
       \E failed \in Range(PrepareSteps) \cup {"none"},
          cpu_cores \in CpuCores, memory_mb \in MemoryMb :
        /\ next_uuid' = next_uuid + 1
        /\ generated' = Append(generated, id)
        /\ bundles' = IF failed = "bundle_dir" THEN bundles
                      ELSE bundles \cup {bundle_path(node, id)}
        /\ create_log' = Put(create_log, id,
              IF failed = "none" THEN <<Ev("bundle_build", TRUE)>>
              ELSE <<Ev(failed, FALSE), Ev("return", FALSE)>>)
        /\ task' = [task EXCEPT ![t] =
              LET loc == [Call("create", id, node, "create_youki_create")
                            EXCEPT !.log =
                               Requested(t, failed, cpu_cores, memory_mb)]
              IN IF failed = "none" THEN loc ELSE Done(t, loc, "Err")]
    /\ UNCHANGED <<api, follow,
                   containers, containers_by_node, containers_lock, remove_ok,
                   early_remove>>

\* youki create <id> --bundle <path>
CreateYoukiCreate(t) ==
    /\ task[t].pc = "create_youki_create"
    /\ \E q \in {<<youki_create(r), Answer(r)>> : r \in ExecResults} :
       LET res == q[1]
           next == AfterYoukiCreate(res)
           loc == [task[t] EXCEPT !.log = @ \o Noted(t, "create", q[2])]
       IN
        /\ IF next = "return"
           THEN LoggedReturn(task[t].id, Ev("youki_create", FALSE), FALSE)
           ELSE Logged(task[t].id, Ev("youki_create", res = "Ok"))
        /\ task' = [task EXCEPT ![t] =
              IF next = "return" THEN Done(t, loc, "Err")
                                 ELSE [loc EXCEPT !.pc = next]]
    /\ UNCHANGED <<api, follow,
                   containers, containers_by_node, containers_lock, bundles,
                   next_uuid, generated, remove_ok, early_remove>>

\* youki start <id>
CreateYoukiStart(t) ==
    /\ task[t].pc = "create_youki_start"
    /\ \E q \in {<<youki_start(r), Answer(r)>> : r \in ExecResults} :
       LET res == q[1]
           next == AfterYoukiStart(res)
           loc == [task[t] EXCEPT !.log = @ \o Noted(t, "start", q[2])]
       IN
        /\ IF next = "return"
           THEN LoggedReturn(task[t].id, Ev("youki_start", FALSE), FALSE)
           ELSE Logged(task[t].id, Ev("youki_start", res = "Ok"))
        /\ task' = [task EXCEPT ![t] =
              IF next = "return" THEN Done(t, loc, "Err")
                                 ELSE [loc EXCEPT !.pc = next]]
    /\ UNCHANGED <<api, follow,
                   containers, containers_by_node, containers_lock, bundles,
                   next_uuid, generated, remove_ok, early_remove>>

\* The ContainerState create_container tracks.
NewState(id, node) ==
    [id |-> id, node_id |-> node, bundle_path |-> bundle_path(node, id),
     status |-> "running", pid |-> "None"]

\* self.containers.write().await.insert(container_id, state)
CreateInsert(t) ==
    /\ task[t].pc = "create_insert"
    /\ containers_lock = NoTask
    /\ containers' = Put(containers, task[t].id,
                         NewState(task[t].id, task[t].node))
    /\ Logged(task[t].id, Ev("insert", TRUE))
    /\ task' = [task EXCEPT ![t].pc = "create_index"]
    /\ UNCHANGED <<api, follow,
                   containers_by_node, containers_lock, bundles, next_uuid,
                   generated, remove_ok, early_remove>>

\* containers_by_node.write().await.entry(node).or_default().push(id); Ok(id)
CreateIndex(t) ==
    /\ task[t].pc = "create_index"
    /\ containers_by_node' = Put(containers_by_node, task[t].node,
          Append(IF task[t].node \in DOMAIN containers_by_node
                 THEN containers_by_node[task[t].node] ELSE <<>>,
                 task[t].id))
    /\ LoggedReturn(task[t].id, Ev("index", TRUE), TRUE)
    /\ task' = [task EXCEPT ![t] = Done(t, @, "Ok")]
    /\ UNCHANGED <<api, follow,
                   containers, containers_lock, bundles, next_uuid, generated,
                   remove_ok, early_remove>>

\* -------------------------------------------------------- stop_container

\* The external commands of a stop_container call, in the order invoked:
\* "kill SIGTERM", "kill SIGKILL", and each state query with what it showed.
\* A run of state queries that showed the same is logged once.
Invoked(log, cmd) ==
    IF log # <<>> /\ log[Len(log)] = cmd /\ cmd = "state nonterminal"
    THEN log ELSE Append(log, cmd)

\* tokio::time::Instant::now() >= deadline
DeadlineReachedAlways(now, deadline) == TRUE

DeadlineReachedNever(now, deadline) == FALSE

DeadlineReached(now, deadline) == now >= deadline

\* The arms of the wait loop's match on youki_state's result, in order.
StopMatchRetryOnError(res, now, deadline) ==
    IF res.tag = "Ok" /\ res.status = "stopped" THEN "break"
    ELSE IF res.tag = "Ok" /\ DeadlineReached(now, deadline) THEN "sigkill"
    ELSE IF res.tag = "Ok" THEN "sleep"
    ELSE IF res.tag = "ContainerNotFound" THEN "break"
    ELSE "sleep"

StopMatchGoneIsError(res, now, deadline) ==
    IF res.tag = "Ok" /\ res.status = "stopped" THEN "break"
    ELSE IF res.tag = "Ok" /\ DeadlineReached(now, deadline) THEN "sigkill"
    ELSE IF res.tag = "Ok" THEN "sleep"
    ELSE "return_err"

StopMatch(res, now, deadline) ==
    IF res.tag = "Ok" /\ res.status = "stopped" THEN "break"
    ELSE IF res.tag = "Ok" /\ DeadlineReached(now, deadline) THEN "sigkill"
    ELSE IF res.tag = "Ok" THEN "sleep"
    ELSE IF res.tag = "ContainerNotFound" THEN "break"
    ELSE "return_err"

\* What a state query showed: a terminal or non-terminal status, that the
\* container is not found, or another error.
Observed(res) ==
    IF res.tag = "Ok"
    THEN IF res.status = "stopped" THEN "state stopped"
                                   ELSE "state nonterminal"
    ELSE IF res.tag = "ContainerNotFound" THEN "state notfound"
                                          ELSE "state error"

\* tokio::time::sleep(Duration::from_millis(100))
SleepNoTime(clock) == clock

Sleep(clock) == Sat(clock + PollInterval)

\* if let Some(state) = containers.get_mut(id) { state.status = "stopped" }
MarkStoppedNoUpdate(cs, id) == cs

MarkStoppedResurrects(cs, id) ==
    IF id \in DOMAIN cs THEN [cs EXCEPT ![id].status = "stopped"]
    ELSE Put(cs, id, [NewState(id, NoNode) EXCEPT !.status = "stopped"])

MarkStopped(cs, id) ==
    IF id \in DOMAIN cs THEN [cs EXCEPT ![id].status = "stopped"] ELSE cs

\* if let Err(e) = self.youki_kill(id, "SIGTERM").await { warn!(...) }
\* Where the call goes after the SIGTERM's result.
AfterSigtermPropagates(res) == IF res = "Ok" THEN "stop_poll" ELSE "return"

AfterSigterm(res) == "stop_poll"

\* The warning a watched call logged for a SIGTERM that failed.
Warned(t, res) == IF t \in Observers /\ res # "Ok" THEN <<res>> ELSE <<>>

\* The call: SIGTERM is sent, its error only warned of, and the deadline set.
StopContainer(t, id) ==
    /\ task[t].pc = "idle"
    /\ id \in KnownIds
    /\ \E q \in {<<youki_kill(r), r.dur>> : r \in ExecResults} :
       LET loc == [Call("stop", id, NoNode, "stop_poll") EXCEPT
                      !.log = Invoked(<<>>, "kill SIGTERM"),
                      !.warned = Warned(t, q[1]),
                      !.clock = Sat(q[2]),
                      !.deadline = Sat(q[2]) + stop_timeout]
       IN task' = [task EXCEPT ![t] =
              IF AfterSigterm(q[1]) = "return" THEN Return(loc, "Err")
                                               ELSE loc]
    /\ UNCHANGED <<api, follow,
                   containers, containers_by_node, containers_lock, bundles,
                   next_uuid, generated, create_log, remove_ok, early_remove>>

\* One round of the wait loop: the state query and the match on its result.
StopPoll(t) ==
    /\ task[t].pc = "stop_poll"
    /\ \E q \in {<<youki_state(r), r.dur>> : r \in ExecResults} :
       LET res == q[1]
           now == Sat(task[t].clock + q[2])
           arm == StopMatch(res, now, task[t].deadline)
           loc == [task[t] EXCEPT
                      !.log = Invoked(@, Observed(res)),
                      !.clock = now]
       IN task' = [task EXCEPT ![t] =
              CASE arm = "break" -> [loc EXCEPT !.pc = "stop_update"]
                [] arm = "sigkill" -> [loc EXCEPT !.pc = "stop_sigkill"]
                [] arm = "sleep" -> [loc EXCEPT !.pc = "stop_sleep"]
                [] OTHER -> Return(loc, "Err")]
    /\ UNCHANGED <<api, follow,
                   containers, containers_by_node, containers_lock, bundles,
                   next_uuid, generated, create_log, remove_ok, early_remove>>

\* The deadline arm: SIGKILL, its result dropped (.ok()), and the loop ends.
StopSigkill(t) ==
    /\ task[t].pc = "stop_sigkill"
    /\ \E q \in {<<youki_kill(r), r.dur>> : r \in ExecResults} :
        task' = [task EXCEPT ![t] =
            [@ EXCEPT !.log = Invoked(@, "kill SIGKILL"),
                      !.sigkill_at = task[t].clock,
                      !.clock = Sat(@ + q[2]),
                      !.pc = "stop_update"]]
    /\ UNCHANGED <<api, follow,
                   containers, containers_by_node, containers_lock, bundles,
                   next_uuid, generated, create_log, remove_ok, early_remove>>

StopSleep(t) ==
    /\ task[t].pc = "stop_sleep"
    /\ task' = [task EXCEPT ![t] =
            [@ EXCEPT !.clock = Sleep(@), !.pc = "stop_poll"]]
    /\ UNCHANGED <<api, follow,
                   containers, containers_by_node, containers_lock, bundles,
                   next_uuid, generated, create_log, remove_ok, early_remove>>

\* What a call finds cached for id in the primary map.
Found(cs, id) == IF id \in DOMAIN cs THEN cs[id].status ELSE "none"

\* After the loop: the cached status is set under the write lock; Ok(()).
StopUpdate(t) ==
    /\ task[t].pc = "stop_update"
    /\ containers_lock = NoTask
    /\ containers' = MarkStopped(containers, task[t].id)
    /\ task' = [task EXCEPT ![t] =
          Return([@ EXCEPT !.found = Found(containers, task[t].id)], "Ok")]
    /\ UNCHANGED <<api, follow,
                   containers_by_node, containers_lock, bundles, next_uuid,
                   generated, create_log, remove_ok, early_remove>>

\* ------------------------------------------------------ remove_container

\* self.containers.write().await.remove(container_id)
EraseKeepsEntry(cs, id) == cs

Erase(cs, id) == Drop(cs, id)

\* The `?` after youki_delete: where the call goes on.
AfterYoukiDeleteIgnoringError(res) == "remove_erase"

AfterYoukiDelete(res) == IF res = "Ok" THEN "remove_erase" ELSE "return"

\* The call: youki delete --force <id>; an error other than already-gone
\* is returned.
RemoveContainer(t, id) ==
    /\ task[t].pc = "idle"
    /\ id \in KnownIds
    /\ \E q \in {<<youki_delete(r), Answer(r)>> : r \in ExecResults} :
       LET loc == [Call("remove", id, NoNode, "remove_erase") EXCEPT
                      !.log = Noted(t, "delete", q[2])]
       IN task' = [task EXCEPT ![t] =
              IF AfterYoukiDelete(q[1]) = "return" THEN Done(t, loc, "Err")
                                                   ELSE loc]
    /\ early_remove' = IF CreatePending(id) THEN early_remove \cup {id}
                                            ELSE early_remove
    /\ UNCHANGED <<api, follow,
                   containers, containers_by_node, containers_lock, bundles,
                   next_uuid, generated, create_log, remove_ok>>

\* The entry is taken out of the primary map; the write guard, a temporary
\* of the `if let` scrutinee, stays held for the body of the `if let`.
\* With no entry the call returns Ok at once.
RemoveErase(t) ==
    /\ task[t].pc = "remove_erase"
    /\ containers_lock = NoTask
    /\ IF task[t].id \in DOMAIN containers
       THEN /\ containers' = Erase(containers, task[t].id)
            /\ containers_lock' = t
            /\ task' = [task EXCEPT ![t] =
                  [@ EXCEPT !.node = containers[task[t].id].node_id,
                            !.found = Found(containers, task[t].id),
                            !.pc = "remove_cleanup"]]
            /\ UNCHANGED remove_ok
       ELSE /\ task' = [task EXCEPT ![t] = Done(t, @, "Ok")]
            /\ remove_ok' = remove_ok \cup {task[t].id}
            /\ UNCHANGED <<containers, containers_lock>>
    /\ UNCHANGED <<api, follow,
                   containers_by_node, bundles, next_uuid, generated,
                   create_log, early_remove>>

\* cleanup_bundle(&state.bundle_path).await.ok()
RemoveCleanup(t) ==
    /\ task[t].pc = "remove_cleanup"
    /\ LET path == bundle_path(task[t].node, task[t].id) IN
       \E removed \in BOOLEAN :
        bundles' = IF path \in bundles /\ removed THEN bundles \ {path}
                                                  ELSE bundles
    /\ task' = [task EXCEPT ![t].pc = "remove_index"]
    /\ UNCHANGED <<api, follow,
                   containers, containers_by_node, containers_lock, next_uuid,
                   generated, create_log, remove_ok, early_remove>>

\* The holder of the primary map's lock once the `if let` body has ended and
\* its guard is dropped.
GuardKept(t) == t

GuardDropped(t) == NoTask

\* The identifier leaves its node's list; both guards are dropped; Ok(()).
RemoveIndex(t) ==
    /\ task[t].pc = "remove_index"
    /\ containers_by_node' =
          IF task[t].node \in DOMAIN containers_by_node
          THEN [containers_by_node EXCEPT
                    ![task[t].node] = Retain(@, task[t].id)]
          ELSE containers_by_node
    /\ containers_lock' = GuardDropped(t)
    /\ remove_ok' = remove_ok \cup {task[t].id}
    /\ task' = [task EXCEPT ![t] = Done(t, @, "Ok")]
    /\ UNCHANGED <<api, follow,
                   containers, bundles, next_uuid, generated, create_log,
                   early_remove>>

\* -------------------------------------------------- get_container_status


\* e.to_string(): the kind of the error and the text it carries.
ErrorText(e) == <<e.tag, e.message>>

ContainerStatus(id, state, error_message) ==
    [id |-> id, state |-> state, exit_code |-> None,
     error_message |-> error_message]

\* The arms of get_container_status's match on youki_state's result.
StatusMatchGoneIsUnknown(res) ==
    IF res.tag = "Ok" THEN "live" ELSE "degraded"

StatusMatchErrorReturned(res) ==
    IF res.tag = "Ok" THEN "live"
    ELSE IF res.tag = "ContainerNotFound" THEN "cached"
    ELSE "return_err"

StatusMatch(res) ==
    IF res.tag = "Ok" THEN "live"
    ELSE IF res.tag = "ContainerNotFound" THEN "cached"
    ELSE "degraded"

\* What the arms other than the not-found one return.
Live(id, res) == ContainerStatus(id, res.status, None)

Degraded(id, res) == ContainerStatus(id, "unknown", ErrorText(res))

\* The not-found arm, under the read lock: the cached status, or the error.
NotFoundError == [tag |-> "RuntimeError", message |-> <<"Container", "not", "found">>]

Cached(cs, id) == ContainerStatus(id, cs[id].status, None)

\* The call: the state query and, unless it says not-found, the result.
GetContainerStatus(t, id) ==
    /\ task[t].pc = "idle"
    /\ id \in KnownIds
    /\ \E res \in {youki_state(r) : r \in ExecResults} :
       LET arm == StatusMatch(res)
           loc == [Call("status", id, NoNode, "status_read") EXCEPT
                      !.log = Noted(t, "state", res)]
       IN task' = [task EXCEPT ![t] =
              CASE arm = "live" ->
                     Done(t, [loc EXCEPT !.value = Live(id, res)], "Ok")
                [] arm = "degraded" ->
                     Done(t, [loc EXCEPT !.value = Degraded(id, res)], "Ok")
                [] arm = "cached" -> loc
                [] OTHER -> Done(t, loc, "Err")]
    /\ UNCHANGED <<api, follow,
                   containers, containers_by_node, containers_lock, bundles,
                   next_uuid, generated, create_log, remove_ok, early_remove>>

StatusReadEvicting(t) ==
    /\ task[t].pc = "status_read"
    /\ containers_lock = NoTask
    /\ LET id == task[t].id
           loc == [task[t] EXCEPT !.found = Found(containers, id)]
       IN /\ task' = [task EXCEPT ![t] =
               IF id \in DOMAIN containers
               THEN Done(t, [loc EXCEPT !.value = Cached(containers, id)], "Ok")
               ELSE Done(t, [loc EXCEPT !.value = NotFoundError], "Err")]
          /\ containers' = Drop(containers, id)
    /\ UNCHANGED <<api, follow,
                   containers_by_node, containers_lock, bundles,
                   next_uuid, generated, create_log, remove_ok, early_remove>>

\* self.containers.read().await, then the entry's cached status if it is there
StatusRead(t) ==
    /\ task[t].pc = "status_read"
    /\ containers_lock = NoTask
    /\ LET id == task[t].id
           loc == [task[t] EXCEPT !.found = Found(containers, id)]
       IN task' = [task EXCEPT ![t] =
              IF id \in DOMAIN containers
              THEN Done(t, [loc EXCEPT !.value = Cached(containers, id)], "Ok")
              ELSE Done(t, [loc EXCEPT !.value = NotFoundError], "Err")]
    /\ UNCHANGED <<api, follow,
                   containers, containers_by_node, containers_lock, bundles,
                   next_uuid, generated, create_log, remove_ok, early_remove>>

\* ------------------------------------------------------- list_containers

\* The arms of the loop's match on get_container_status's result.
ListMatchAborting(result) == IF result = "Ok" THEN "push" ELSE "return_err"

ListMatch(result) == IF result = "Ok" THEN "push" ELSE "push_unknown"

\* The record pushed for an identifier whose status is an error.
Unknown(id, e) == ContainerStatus(id, "unknown", ErrorText(e))

\* The record is pushed; after the last identifier the list is returned.
Pushed(t, loc, result, status) ==
    LET arm == ListMatch(result)
        next == [loc EXCEPT !.value =
                    Append(@, IF arm = "push" THEN status
                              ELSE Unknown(loc.ids[Len(loc.value) + 1], status))]
    IN IF arm = "return_err" THEN Done(t, loc, "Err")
       ELSE IF Len(next.value) = Len(next.ids) THEN Done(t, next, "Ok")
       ELSE [next EXCEPT !.pc = "list_query"]

\* The call: the node's list is cloned under the read lock, which is dropped;
\* an empty list is returned at once.
ListContainers(t, node) ==
    /\ task[t].pc = "idle"
    /\ LET ids == IF node \in DOMAIN containers_by_node
                  THEN containers_by_node[node] ELSE <<>>
           loc == [Call("list", NoId, node, "list_query") EXCEPT !.ids = ids]
       IN task' = [task EXCEPT ![t] =
              IF ids = <<>> THEN Done(t, loc, "Ok") ELSE loc]
    /\ UNCHANGED <<api, follow,
                   containers, containers_by_node, containers_lock, bundles,
                   next_uuid, generated, create_log, remove_ok, early_remove>>

\* get_container_status of the next identifier: its state query.
ListQuery(t) ==
    /\ task[t].pc = "list_query"
    /\ \E res \in {youki_state(r) : r \in ExecResults} :
       LET id == task[t].ids[Len(task[t].value) + 1]
           arm == StatusMatch(res)
           loc == [task[t] EXCEPT !.log = @ \o Noted(t, "state", res)]
       IN task' = [task EXCEPT ![t] =
              CASE arm = "live" -> Pushed(t, loc, "Ok", Live(id, res))
                [] arm = "degraded" -> Pushed(t, loc, "Ok", Degraded(id, res))
                [] arm = "cached" -> [loc EXCEPT !.pc = "list_read"]
                [] OTHER -> Pushed(t, loc, "Err", res)]
    /\ UNCHANGED <<api, follow,
                   containers, containers_by_node, containers_lock, bundles,
                   next_uuid, generated, create_log, remove_ok, early_remove>>

\* get_container_status of the next identifier: its not-found arm.
ListRead(t) ==
    /\ task[t].pc = "list_read"
    /\ containers_lock = NoTask
    /\ LET id == task[t].ids[Len(task[t].value) + 1] IN
       task' = [task EXCEPT ![t] =
              IF id \in DOMAIN containers
              THEN Pushed(t, @, "Ok", Cached(containers, id))
              ELSE Pushed(t, @, "Err", NotFoundError)]
    /\ UNCHANGED <<api, follow,
                   containers, containers_by_node, containers_lock, bundles,
                   next_uuid, generated, create_log, remove_ok, early_remove>>

\* ----------------------------------------------------- the helper methods

\* The public helper methods and the binary check of with_config, called on
\* their own; the Registry is not involved. The call's arguments and what
\* the tool did are in log, how long the caller waited in clock, the command
\* line an error carries in value.
Signals == {"SIGTERM", "SIGKILL"}

HelperIds == { ContainerId(name, 1) : name \in Names }

Invocation(op, id, args, run, waited, cmd, result) ==
    [Call(op, id, NoNode, "idle") EXCEPT
        !.log = << <<args, run>> >>, !.clock = waited, !.value = cmd,
        !.result = result]

Helper(t, op, id, args, run, result) ==
    LET r == exec_youki(args, run) IN
    /\ task[t].pc = "idle"
    /\ task' = [task EXCEPT ![t] =
          Invocation(op, id, args, run, r.dur, r.cmd, result)]
    /\ UNCHANGED <<api, follow,
                   containers, containers_by_node, containers_lock, bundles,
                   next_uuid, generated, create_log, remove_ok, early_remove>>

CallYoukiCreate(t, id, node) ==
    \E run \in Runs :
        LET args == <<"create", id, "--bundle", bundle_path(node, id)>> IN
        Helper(t, "youki_create", id, args, run,
               youki_create(exec_youki(args, run)))

CallYoukiStart(t, id) ==
    \E run \in Runs :
        LET args == <<"start", id>> IN
        Helper(t, "youki_start", id, args, run,
               youki_start(exec_youki(args, run)))

CallYoukiKill(t, id, signal) ==
    \E run \in Runs :
        LET args == <<"kill", id, signal>> IN
        Helper(t, "youki_kill", id, args, run,
               youki_kill(exec_youki(args, run)))

CallYoukiDelete(t, id, force) ==
    \E run \in Runs :
        LET args == IF force THEN <<"delete", "--force", id>>
                    ELSE <<"delete", id>> IN
        Helper(t, "youki_delete", id, args, run,
               youki_delete(exec_youki(args, run)))

CallYoukiState(t, id) ==
    \E run \in Runs :
        LET args == <<"state", id>> IN
        Helper(t, "youki_state", id, args, run,
               youki_state(exec_youki(args, run)).tag)

\* verify_binary: `--version` is awaited without a timeout, so the caller
\* waits as long as the run takes.
verify_binary(run) ==
    IF run.kind = "spawn_error" THEN "BinaryNotFound"
    ELSE IF ~run.out.success THEN "BinaryNotFound" ELSE "Ok"

VerifyBinary(t) ==
    /\ task[t].pc = "idle"
    /\ \E run \in Runs :
        task' = [task EXCEPT ![t] =
            Invocation("verify_binary", NoId, <<"--version">>, run, run.dur,
                       <<>>, verify_binary(run))]
    /\ UNCHANGED <<api, follow,
                   containers, containers_by_node, containers_lock, bundles,
                   next_uuid, generated, create_log, remove_ok, early_remove>>

\* ---------------------------------------------------------------- get_logs

\* A log file's text, as characters: two letters, carriage return, newline.
CR == "CR"

LF == "LF"

LogChars == {"a", "b", CR, LF}

MaxLogLen == 4

Contents == UNION { [1..n -> LogChars] : n \in 0..MaxLogLen }

\* The tail option: None, or Some(n).
MaxTail == 5

Tails == {None} \cup { <<n>> : n \in 0..MaxTail }

\* container.log under state_root: missing, there but unreadable, or there
\* with its content.
LogFiles ==
    [exists : {FALSE}, readable : {FALSE}, content : {<<>>}]
    \cup [exists : {TRUE}, readable : {FALSE}, content : {<<>>}]
    \cup [exists : {TRUE}, readable : {TRUE}, content : Contents]

\* The first newline of text at or after position i, or 0.
RECURSIVE NextNewline(_, _)
NextNewline(text, i) ==
    IF i > Len(text) THEN 0
    ELSE IF text[i] = LF THEN i ELSE NextNewline(text, i + 1)

\* str::split_inclusive('\n'): the pieces, each with its newline.
RECURSIVE SplitInclusive(_)
SplitInclusive(text) ==
    IF Len(text) = 0 THEN <<>>
    ELSE LET k == NextNewline(text, 1) IN
         IF k = 0 THEN <<text>>
         ELSE <<SubSeq(text, 1, k)>>
              \o SplitInclusive(SubSeq(text, k + 1, Len(text)))

\* A piece without its "\n" or "\r\n".
StripLineEnding(piece) ==
    IF Len(piece) > 0 /\ piece[Len(piece)] = LF
    THEN LET line == SubSeq(piece, 1, Len(piece) - 1) IN
         IF Len(line) > 0 /\ line[Len(line)] = CR
         THEN SubSeq(line, 1, Len(line) - 1) ELSE line
    ELSE piece

\* str::lines()
Lines(text) ==
    LET pieces == SplitInclusive(text) IN
    [i \in 1..Len(pieces) |-> StripLineEnding(pieces[i])]

\* [&str]::join("\n")
RECURSIVE Join(_)
Join(lines) ==
    IF Len(lines) = 0 THEN <<>>
    ELSE IF Len(lines) = 1 THEN lines[1]
    ELSE lines[1] \o <<LF>> \o Join(Tail(lines))

\* usize::saturating_sub
saturating_sub_wrapping(a, b) == IF b > a THEN b - a ELSE a - b

saturating_sub(a, b) == IF b > a THEN 0 ELSE a - b

get_logs_missing_is_error(file, tail) ==
    IF ~file.exists \/ ~file.readable THEN [result |-> "Io", value |-> <<>>]
    ELSE [result |-> "Ok", value |-> file.content]

\* get_logs on the log file as it is on disk.
get_logs(file, tail) ==
    IF ~file.exists THEN [result |-> "Ok", value |-> <<>>]
    ELSE IF ~file.readable THEN [result |-> "Io", value |-> <<>>]
    ELSE IF tail # None
         THEN LET lines == Lines(file.content)
                  start == saturating_sub(Len(lines), tail[1])
              IN [result |-> "Ok",
                  value |-> Join(SubSeq(lines, start + 1, Len(lines)))]
         ELSE [result |-> "Ok", value |-> file.content]

\* A call of get_logs on a log file as it is on disk, about to run.
GetLogsCalled(id, file, tail) ==
    [Call("get_logs", id, NoNode, "get_logs") EXCEPT
        !.log = << <<"file", file>>, <<"tail", tail>> >>]

GetLogs(t) ==
    /\ task[t].pc = "get_logs"
    /\ LET out == get_logs(task[t].log[1][2], task[t].log[2][2]) IN
        task' = [task EXCEPT ![t] =
            Keep([@ EXCEPT !.value = out.value], out.result)]
    /\ UNCHANGED <<api, follow,
                   containers, containers_by_node, containers_lock, bundles,
                   next_uuid, generated, create_log, remove_ok, early_remove>>

\* --------------------------------------------------------------- get_stats

\* u64, scaled to WordBits bits.
WordBits == 24

MaxWord == 2^WordBits - 1

\* a * b modulo 2^WordBits, by doubling, no intermediate above 3 * MaxWord.
RECURSIVE wrapping_mul(_, _)
wrapping_mul(a, b) ==
    IF b = 0 THEN 0
    ELSE ((IF b % 2 = 1 THEN a ELSE 0) + 2 * wrapping_mul(a, b \div 2))
            % (MaxWord + 1)

\* a * b on u64: the product when it fits; otherwise a panic (overflow
\* checks on) or the wrapped product (overflow checks off).
Mul(a, b) ==
    IF b = 0 \/ a <= MaxWord \div b
    THEN {[panic |-> FALSE, value |-> a * b]}
    ELSE {[panic |-> TRUE, value |-> 0],
          [panic |-> FALSE, value |-> wrapping_mul(a, b)]}

\* The words of a cgroup file: names, decimal numerals of a u64, a numeral
\* too large for a u64, and a word that is no numeral.
Word(w) == [kind |-> "word", w |-> w, v |-> 0]

Numeral(v) == [kind |-> "numeral", w |-> "", v |-> v]

TooLarge == [kind |-> "too_large", w |-> "", v |-> 0]

StatValues ==
    {0, 1, 12345, MaxWord \div 1000, MaxWord \div 1000 + 1, MaxWord}

\* str::parse::<u64>().unwrap_or(0)
parse_or_zero(token) == IF token.kind = "numeral" THEN token.v ELSE 0

\* A line: whether it begins with white space, and its words.
Line(indent, words) == [indent |-> indent, words |-> words]

StatLines ==
    { Line(FALSE, <<Word("usage_usec"), Numeral(v)>>) : v \in StatValues }
    \cup { Line(FALSE, <<Word("usage_usec")>>),
           Line(FALSE, <<Word("usage_usec"), Word("many")>>),
           Line(FALSE, <<Word("usage_usec"), TooLarge>>),
           Line(TRUE, <<Word("usage_usec"), Numeral(1)>>),
           Line(FALSE, <<Word("usage_usec_total"), Numeral(1)>>),
           Line(FALSE, <<Word("user_usec"), Numeral(1)>>) }

MaxStatLines == 2

StatTexts == UNION { [1..n -> StatLines] : n \in 0..MaxStatLines }

\* line.starts_with("usage_usec")
StartsWithUsage(line) ==
    /\ ~line.indent
    /\ Len(line.words) > 0
    /\ line.words[1].kind = "word"
    /\ line.words[1].w \in {"usage_usec", "usage_usec_total"}

\* parse_cpu_usage: the first line that starts with "usage_usec" and has a
\* second word gives the result; the outcomes of its multiplication.
RECURSIVE parse_cpu_usage(_)
parse_cpu_usage(lines) ==
    IF Len(lines) = 0 THEN {[panic |-> FALSE, value |-> 0]}
    ELSE IF StartsWithUsage(Head(lines)) /\ Len(Head(lines).words) >= 2
         THEN Mul(parse_or_zero(Head(lines).words[2]), 1000)
         ELSE parse_cpu_usage(Tail(lines))

\* A cgroup file: missing or unreadable, or there with its content.
Missing == [exists |-> FALSE, content |-> <<>>]

CpuStatFiles == {Missing} \cup [exists : {TRUE}, content : StatTexts]

MemoryFiles ==
    {Missing}
    \cup [exists : {TRUE},
          content : { <<Numeral(v)>> : v \in {0, 1} } \cup {<<Word("max")>>}]

\* s.trim().parse().ok(): the text must be one numeral.
memory_usage(file) ==
    IF file.exists /\ file.content[1].kind = "numeral"
    THEN file.content[1].v ELSE 0

\* get_stats: what it returns, or that it panicked.
get_stats(id, cpu_stat, memory_current) ==
    { [panic |-> cpu.panic, container_id |-> id, cpu_usage_ns |-> cpu.value,
       memory_usage_bytes |-> memory_usage(memory_current)] :
        cpu \in IF cpu_stat.exists THEN parse_cpu_usage(cpu_stat.content)
                ELSE {[panic |-> FALSE, value |-> 0]} }

GetStatsCalled(id, cpu_stat, memory_current) ==
    [Call("get_stats", id, NoNode, "get_stats") EXCEPT
        !.log = << <<"cpu.stat", cpu_stat>>,
                   <<"memory.current", memory_current>> >>]

GetStats(t) ==
    /\ task[t].pc = "get_stats"
    /\ \E out \in get_stats(task[t].id, task[t].log[1][2], task[t].log[2][2]) :
        task' = [task EXCEPT ![t] =
            Keep([@ EXCEPT !.value = out],
                 IF out.panic THEN "Panic" ELSE "Ok")]
    /\ UNCHANGED <<api, follow,
                   containers, containers_by_node, containers_lock, bundles,
                   next_uuid, generated, create_log, remove_ok, early_remove>>

\* ------------------------------------------------------------------ spec

\* ------------------------------------------------ create_workload (API)

Handlers == {"h1", "h2"}

MaxWorkloads == 2

MaxReplicas == 2

\* The capacity of the mpsc channel to the orchestrator.
ChannelCapacity == 1

\* CreateWorkloadRequest: name, containers, replicas (labels play no part).
ContainerConfigRequests == {[name |-> "c", image |-> "img"]}

Requests ==
    [name : {<<>>, <<"w">>},
     containers : {<<>>} \cup {<<c>> : c \in ContainerConfigRequests},
     replicas : 0..MaxReplicas]

\* The checks at the head of create_workload, in order: the message of the
\* first that fails, or None.
ValidationWithoutReplicas(request) ==
    IF request.name = <<>> THEN <<"Workload name cannot be empty">>
    ELSE IF request.containers = <<>>
         THEN <<"Workload must have at least one container">>
         ELSE None

Validation(request) ==
    IF request.name = <<>> THEN <<"Workload name cannot be empty">>
    ELSE IF request.containers = <<>>
         THEN <<"Workload must have at least one container">>
         ELSE IF request.replicas = 0
              THEN <<"Replicas must be at least 1">>
              ELSE None

\* impl From<ContainerConfigRequest> for ContainerConfig
ContainerConfig(req) == [name |-> req.name, image |-> req.image]

\* impl From<CreateWorkloadRequest> for WorkloadDefinition, with the uuid
\* Uuid::new_v4() returned.
WorkloadDefinition(req, uuid) ==
    [id |-> uuid,
     name |-> req.name,
     containers |-> [i \in DOMAIN req.containers |->
                        ContainerConfig(req.containers[i])],
     replicas |-> req.replicas]

ApiError(tag, message) == [tag |-> tag, message |-> message]

Created(workload) == [tag |-> "Created", message |-> workload.id]

HandlerIdle ==
    [pc |-> "idle", request |-> None, workload |-> None, response |-> None,
     log |-> <<>>]

Respond(loc, response) ==
    [loc EXCEPT !.pc = "idle", !.response = <<response>>]

\* The call up to its first await: the checks and the conversion.
CreateWorkload(h, request) ==
    /\ handler[h].pc = "idle"
    /\ LET loc == [HandlerIdle EXCEPT !.request = <<request>>]
           failed == Validation(request)
       IN IF failed # None
          THEN /\ handler' = [handler EXCEPT ![h] =
                     Respond(loc, ApiError("validation_error", failed[1]))]
               /\ UNCHANGED next_workload
          ELSE /\ next_workload <= MaxWorkloads
               /\ handler' = [handler EXCEPT ![h] =
                     [loc EXCEPT
                        !.workload =
                            <<WorkloadDefinition(request, next_workload)>>,
                        !.pc = "put_workload"]]
               /\ next_workload' = next_workload + 1
    /\ UNCHANGED <<runtime, follow, state_store, workload_rx, submitted>>

\* state.state_store.put_workload(workload.clone()).await.map_err(..)?
\* The store takes the workload under its id, or answers with an error.
PutWorkload(h) ==
    /\ handler[h].pc = "put_workload"
    /\ LET w == handler[h].workload[1] IN
       \/ /\ state_store' = Put(state_store, w.id, w)
          /\ handler' = [handler EXCEPT ![h] =
                [@ EXCEPT !.log = Append(@, "put_workload ok"),
                          !.pc = "send"]]
       \/ /\ handler' = [handler EXCEPT ![h] =
                Respond([@ EXCEPT !.log = Append(@, "put_workload err")],
                        ApiError("state_store_error", "put_workload"))]
          /\ UNCHANGED state_store
    /\ UNCHANGED <<runtime, follow, workload_rx, submitted, next_workload>>

\* state.workload_tx.send(workload.clone()).await.map_err(|_| ..)?
\* The send fails when the receiver is closed, waits while the channel is
\* full, and otherwise queues the workload; then 201 Created.
SendWorkload(h) ==
    /\ handler[h].pc = "send"
    /\ LET w == handler[h].workload[1] IN
       IF ~workload_rx.open
       THEN /\ handler' = [handler EXCEPT ![h] =
                  Respond([@ EXCEPT !.log = Append(@, "send err")],
                          ApiError("internal_error",
                                   "Failed to submit workload to orchestrator"))]
            /\ UNCHANGED <<workload_rx, submitted>>
       ELSE /\ Len(workload_rx.queue) < ChannelCapacity
            /\ workload_rx' = [workload_rx EXCEPT !.queue = Append(@, w)]
            /\ submitted' = submitted \cup {w.id}
            /\ handler' = [handler EXCEPT ![h] =
                  Respond([@ EXCEPT !.log = Append(@, "send ok")], Created(w))]
    /\ UNCHANGED <<runtime, follow, state_store, next_workload>>

\* The orchestrator takes the next workload off the channel.
Receive ==
    /\ workload_rx.open
    /\ workload_rx.queue # <<>>
    /\ workload_rx' = [workload_rx EXCEPT !.queue = Tail(@)]
    /\ UNCHANGED <<runtime, follow, state_store, submitted, next_workload,
                   handler>>

\* The orchestrator's receiver is dropped.
CloseReceiver ==
    /\ workload_rx.open
    /\ workload_rx' = [open |-> FALSE, queue |-> <<>>]
    /\ UNCHANGED <<runtime, follow, state_store, submitted, next_workload,
                   handler>>

ApiInit ==
    /\ state_store = <<>>
    /\ workload_rx = [open |-> TRUE, queue |-> <<>>]
    /\ submitted = {}
    /\ next_workload = 1
    /\ handler = [h \in Handlers |-> HandlerIdle]

\* ------------------------------------------------------------ log streams

MaxStreams == 2

MaxSubscribers == 3

MaxWatchers == 3

\* The containers whose logs are followed.
StreamIds == { ContainerId(name, uuid) : name \in Names, uuid \in 1..MaxStreams }

\* struct LogStreamHandle { sender, _watcher }: the broadcast sender, here
\* the number of receivers subscribed to it, and the watcher's task.
LogStreamHandle(receivers, watcher) ==
    [sender |-> receivers, _watcher |-> watcher]

Watcher(id, n) == [id |-> id, task |-> n]

\* A follow request for id, the map's write guard held: the map afterwards
\* and the watcher tasks spawned. With a handle for id in the map the
\* request subscribes to its sender; without, it spawns a watcher and puts
\* the new handle in the map.
follow_always_spawns(streams, id, fresh) ==
    [streams |-> Put(streams, id, LogStreamHandle(1, fresh)),
     spawned |-> {Watcher(id, fresh)}]

follow_request(streams, id, fresh) ==
    IF id \in DOMAIN streams
    THEN [streams |-> [streams EXCEPT ![id].sender = @ + 1],
          spawned |-> {}]
    ELSE [streams |-> Put(streams, id, LogStreamHandle(1, fresh)),
          spawned |-> {Watcher(id, fresh)}]

Follow(t, id) ==
    /\ task[t].pc = "idle"
    /\ next_watcher <= MaxWatchers
    /\ id \in DOMAIN log_streams => log_streams[id].sender < MaxSubscribers
    /\ LET out == follow_request(log_streams, id, next_watcher) IN
        /\ log_streams' = out.streams
        /\ watchers' = watchers \cup out.spawned
        /\ next_watcher' = next_watcher + Cardinality(out.spawned)
        /\ task' = [task EXCEPT ![t] =
              Done(t, [Call("follow", id, NoNode, "idle") EXCEPT
                          !.log = Noted(t, "follow",
                                        IF out.spawned = {} THEN "subscribed"
                                                            ELSE "spawned")],
                   "Ok")]
    /\ UNCHANGED <<api, containers, containers_by_node, containers_lock,
                   bundles, next_uuid, generated, create_log, remove_ok,
                   early_remove>>

\* A subscriber drops its receiver; with the last one gone the watcher is
\* torn down and its handle leaves the map.
Detach(id) ==
    /\ id \in DOMAIN log_streams
    /\ IF log_streams[id].sender > 1
       THEN /\ log_streams' = [log_streams EXCEPT ![id].sender = @ - 1]
            /\ UNCHANGED watchers
       ELSE /\ log_streams' = Drop(log_streams, id)
            /\ watchers' = watchers \ {Watcher(id, log_streams[id]._watcher)}
    /\ UNCHANGED <<api, runtime, next_watcher>>

FollowInit ==
    /\ log_streams = <<>>
    /\ watchers = {}
    /\ next_watcher = 1

Init ==
    /\ ApiInit
    /\ FollowInit
    /\ containers = <<>>
    /\ containers_by_node = <<>>
    /\ containers_lock = NoTask
    /\ bundles = {}
    /\ next_uuid = 1
    /\ task = [t \in Tasks \cup Observers |-> Idle]
    /\ generated = <<>>
    /\ create_log = <<>>
    /\ remove_ok = {}
    /\ early_remove = {}

\* The steps of each operation.
Create(t) ==
    \/ \E name \in Names, node \in NodeIds : CreateContainer(t, name, node)
    \/ CreateYoukiCreate(t)
    \/ CreateYoukiStart(t)
    \/ CreateInsert(t)
    \/ CreateIndex(t)

Stop(t) ==
    \/ \E id \in KnownIds : StopContainer(t, id)
    \/ StopPoll(t)
    \/ StopSigkill(t)
    \/ StopSleep(t)
    \/ StopUpdate(t)

Status(t) ==
    \/ \E id \in KnownIds : GetContainerStatus(t, id)
    \/ StatusRead(t)

List(t) ==
    \/ \E node \in NodeIds : ListContainers(t, node)
    \/ ListQuery(t)
    \/ ListRead(t)

Remove(t) ==
    \/ \E id \in KnownIds : RemoveContainer(t, id)
    \/ RemoveErase(t)
    \/ RemoveCleanup(t)
    \/ RemoveIndex(t)

\* The Registry under concurrent callers: every task may initialise a node,
\* create a container and remove one.
Next ==
    \E t \in Tasks :
        \/ \E node \in NodeIds : InitNode(t, node)
        \/ Create(t)
        \/ Remove(t)

Spec == Init /\ [][Next]_vars

\* stop_container beside create_container: the tasks of Stoppers stop
\* containers, registered or not, while the other tasks create them.
Stoppers == {"t2"}

StopNext ==
    \/ \E t \in Tasks \ Stoppers : Create(t)
    \/ \E t \in Stoppers : Stop(t)

StopSpec == Init /\ [][StopNext]_vars

\* The same beside remove_container too, which holds the write guard of the
\* primary map that stop_container's final update waits for.
StopRemoveNext ==
    \/ StopNext
    \/ \E t \in Tasks \ Stoppers : Remove(t)

StopRemoveSpec == Init /\ [][StopRemoveNext]_vars

\* The scheduling the runtime gives: a task that can take its next step is
\* run (an external command ends by command_timeout, a sleep ends, a
\* filesystem call ends), and a task waiting for the write lock gets it once
\* it is free often enough (tokio's RwLock is fair).
StopFairness ==
    /\ \A t \in Stoppers :
        /\ WF_vars(StopPoll(t))
        /\ WF_vars(StopSigkill(t))
        /\ WF_vars(StopSleep(t))
        /\ SF_vars(StopUpdate(t))
    /\ \A t \in Tasks \ Stoppers :
        /\ WF_vars(RemoveCleanup(t))
        /\ WF_vars(RemoveIndex(t))

StopLiveSpec == Init /\ [][StopRemoveNext]_vars /\ StopFairness

\* remove_container watched: the observer removes containers, registered or
\* not, while the other tasks create them.
Creators == Tasks \ Stoppers

RemoveNext ==
    \/ \E t \in Creators : Create(t)
    \/ \E t \in Observers : Remove(t)

RemoveSpec == Init /\ [][RemoveNext]_vars

\* The identifiers some create_container has returned.
Registered == {id \in KnownIds : create_log[id][Len(create_log[id])].ok}

\* get_container_status watched, on containers registered or not, while the
\* other tasks create them.
StatusNext ==
    \/ \E t \in Creators : Create(t)
    \/ \E t \in Observers : Status(t)

StatusSpec == Init /\ [][StatusNext]_vars

\* list_containers watched, while the other tasks create and remove
\* containers.
ListNext ==
    \/ \E t \in Creators : Create(t) \/ Remove(t)
    \/ \E t \in Observers : List(t)

ListSpec == Init /\ [][ListNext]_vars

\* stop_container and the watched remove_container side by side, each called
\* on identifiers create_container has returned; the containers are created
\* before the first of these calls.
StopAndRemoveNext ==
    \/ \E t \in Creators :
          /\ \A o \in Stoppers \cup Observers : task[o] = Idle
          /\ Create(t)
    \/ \E t \in Stoppers :
          \/ \E id \in Registered : StopContainer(t, id)
          \/ StopPoll(t)
          \/ StopSigkill(t)
          \/ StopSleep(t)
          \/ StopUpdate(t)
    \/ \E t \in Observers :
          \/ \E id \in Registered : RemoveContainer(t, id)
          \/ RemoveErase(t)
          \/ RemoveCleanup(t)
          \/ RemoveIndex(t)

StopAndRemoveSpec == Init /\ [][StopAndRemoveNext]_vars

\* An observer calls the helper methods and the binary check.
CliNext ==
    \E t \in Observers :
        \/ \E id \in HelperIds, node \in NodeIds : CallYoukiCreate(t, id, node)
        \/ \E id \in HelperIds : CallYoukiStart(t, id)
        \/ \E id \in HelperIds, signal \in Signals :
              CallYoukiKill(t, id, signal)
        \/ \E id \in HelperIds, force \in BOOLEAN :
              CallYoukiDelete(t, id, force)
        \/ \E id \in HelperIds : CallYoukiState(t, id)
        \/ VerifyBinary(t)

CliSpec == Init /\ [][CliNext]_vars

\* One caller creates containers until an observer makes its first call;
\* the observer stops, removes and queries them, one call after the other.
CallsNext ==
    \/ \E t \in Creators :
          (\A o \in Observers : task[o] = Idle) /\ Create(t)
    \/ \E t \in Observers : Stop(t) \/ Remove(t) \/ Status(t)

CallsSpec == Init /\ [][CallsNext]_vars

\* One caller creates containers while an observer initialises nodes.
InitNext ==
    \/ \E t \in Creators : Create(t)
    \/ \E t \in Observers, node \in NodeIds : InitNode(t, node)

InitSpec == Init /\ [][InitNext]_vars

\* One caller creates containers until an observer makes its first call;
\* the observer stops them, one call after the other.
TermNext ==
    \/ \E t \in Creators :
          (\A o \in Observers : task[o] = Idle) /\ Create(t)
    \/ \E t \in Observers : Stop(t)

TermSpec == Init /\ [][TermNext]_vars

\* The API's handlers take create requests while the orchestrator receives
\* workloads or drops its receiver.
ApiNext ==
    \/ \E h \in Handlers :
          \/ \E request \in Requests : CreateWorkload(h, request)
          \/ PutWorkload(h)
          \/ SendWorkload(h)
    \/ Receive
    \/ CloseReceiver

ApiSpec == Init /\ [][ApiNext]_vars

\* Callers follow the logs of containers while subscribers detach.
FollowNext ==
    \/ \E t \in Tasks \cup Observers, id \in StreamIds : Follow(t, id)
    \/ \E id \in StreamIds : Detach(id)

FollowSpec == Init /\ [][FollowNext]_vars

\* An observer creates containers, its resource requests in its log.
BuildNext == \E t \in Observers : Create(t)

BuildSpec == Init /\ [][BuildNext]_vars

\* An observer fetches the logs of a container: any log file, any tail.
LogsInit ==
    /\ ApiInit
    /\ FollowInit
    /\ containers = <<>>
    /\ containers_by_node = <<>>
    /\ containers_lock = NoTask
    /\ bundles = {}
    /\ next_uuid = 1
    /\ generated = <<>>
    /\ create_log = <<>>
    /\ remove_ok = {}
    /\ early_remove = {}
    /\ \E id \in HelperIds, file \in LogFiles, tail \in Tails :
          task = [t \in Tasks \cup Observers |->
                    IF t \in Observers THEN GetLogsCalled(id, file, tail)
                    ELSE Idle]

LogsNext == \E t \in Observers : GetLogs(t)

LogsSpec == LogsInit /\ [][LogsNext]_vars

\* An observer reads the statistics of a container: any cgroup files.
StatsInit ==
    /\ ApiInit
    /\ FollowInit
    /\ containers = <<>>
    /\ containers_by_node = <<>>
    /\ containers_lock = NoTask
    /\ bundles = {}
    /\ next_uuid = 1
    /\ generated = <<>>
    /\ create_log = <<>>
    /\ remove_ok = {}
    /\ early_remove = {}
    /\ \E id \in HelperIds, cpu_stat \in CpuStatFiles,
          memory_current \in MemoryFiles :
          task = [t \in Tasks \cup Observers |->
                    IF t \in Observers
                    THEN GetStatsCalled(id, cpu_stat, memory_current)
                    ELSE Idle]

StatsNext == \E t \in Observers : GetStats(t)

StatsSpec == StatsInit /\ [][StatsNext]_vars

\* The locks of the Registry a task holds from one step to the next, and
\* those its next step acquires.
Holds(t) == IF containers_lock = t THEN {"containers"} ELSE {}

Wants(t) ==
    CASE task[t].pc \in {"create_insert", "stop_update", "remove_erase",
                         "status_read", "list_read"} -> {"containers"}
      [] task[t].pc \in {"create_index", "remove_index"} ->
            {"containers_by_node"}
      [] OTHER -> {}

\* All six operations under concurrent callers: one task initialises
\* nodes, creates and removes containers, the other stops, queries and
\* lists them.
LockNext ==
    \/ \E t \in Creators :
          \/ \E node \in NodeIds : InitNode(t, node)
          \/ Create(t)
          \/ Remove(t)
    \/ \E t \in Stoppers : Stop(t) \/ Status(t) \/ List(t)

LockSpec == Init /\ [][LockNext]_vars

\* One caller creates and removes containers while an observer queries and
\* lists them.
ReadNext ==
    \/ \E t \in Creators : Create(t) \/ Remove(t)
    \/ \E t \in Observers : Status(t) \/ List(t)

ReadSpec == Init /\ [][ReadNext]_vars

\* ---------------------------------------------------------------- claims

\* What the histories and the Registry say of an identifier.
StepFailed(id) ==
    \E i \in 1..Len(create_log[id]) :
        create_log[id][i].ev # "return" /\ ~create_log[id][i].ok

ReturnedErr(id) == create_log[id][Len(create_log[id])] = Ev("return", FALSE)

ReturnedOk(id) == create_log[id][Len(create_log[id])] = Ev("return", TRUE)

InMap(id) == id \in DOMAIN containers

InIndexOf(node, id) ==
    /\ node \in DOMAIN containers_by_node
    /\ id \in Range(containers_by_node[node])

InIndex(id) == \E node \in NodeIds : InIndexOf(node, id)

\* A remove_container call on id that has erased the entry and not returned.
Erasing(id) ==
    \E t \in DOMAIN task :
        /\ task[t].op = "remove"
        /\ task[t].id = id
        /\ task[t].pc \in {"remove_cleanup", "remove_index"}

StopPcs == {"stop_poll", "stop_sigkill", "stop_sleep", "stop_update"}

\* Task t returns from stop_container in this step.
StopReturns(t) == task[t].pc \in StopPcs /\ task'[t].pc = "idle"

\* C1: a create_container call in which a step failed has returned an error,
\* and its identifier is neither in the primary map nor in any node's list,
\* then and ever after.
C1_CreateAtomic ==
    \A id \in DOMAIN create_log :
        StepFailed(id) => ReturnedErr(id) /\ ~InMap(id) /\ ~InIndex(id)

\* An external start failed after a successful external create, the call has
\* returned its error, and another container is registered.
C1_Witness ==
    \E id \in DOMAIN create_log :
        /\ create_log[id] = <<Ev("bundle_build", TRUE), Ev("youki_create", TRUE),
                              Ev("youki_start", FALSE), Ev("return", FALSE)>>
        /\ \E other \in DOMAIN containers : other # id /\ InIndex(other)

\* C2 as claimed: in every state the primary map holds an entry for an
\* identifier exactly if create_container has returned it successfully and no
\* remove_container for it has completed.
C2_EntryIffCreatedAndNotRemoved ==
    \A id \in KnownIds : InMap(id) <=> (ReturnedOk(id) /\ id \notin remove_ok)

\* C2 as amended: an entry exists only once the external create and start
\* succeeded and create_container inserted it, which is before it returns;
\* and for an identifier no remove_container was called on before
\* create_container returned it: once returned, the entry exists until a
\* remove_container erases it, which is before that call returns; and once a
\* remove_container on it has returned success, the entry is absent.
C2_EntryBetweenInsertAndErase ==
    \A id \in KnownIds :
        /\ InMap(id) =>
              /\ Ev("youki_start", TRUE) \in Range(create_log[id])
              /\ Ev("insert", TRUE) \in Range(create_log[id])
        /\ id \notin early_remove =>
              /\ (ReturnedOk(id) /\ id \notin remove_ok /\ ~Erasing(id))
                    => InMap(id)
              /\ id \in remove_ok => ~InMap(id)

\* A created and returned container has been removed again, while another
\* create_container has inserted its entry and not yet returned.
C2_Witness ==
    \E id \in KnownIds, other \in KnownIds :
        /\ id \notin early_remove /\ ReturnedOk(id) /\ id \in remove_ok
        /\ ~InMap(id)
        /\ InMap(other) /\ ~ReturnedOk(other)

\* C3 as claimed: in every state, between the steps of concurrent calls too,
\* an identifier is listed under node n exactly if the primary map holds an
\* entry for it whose node id is n.
C3_IndexAgreesWithMap ==
    \A node \in NodeIds, id \in KnownIds :
        InIndexOf(node, id) <=> (InMap(id) /\ containers[id].node_id = node)

\* C4: in a create_container call the external start is invoked only after
\* the external create succeeded, and the entry is inserted and indexed only
\* after the external start succeeded.
C4_CreateOrder ==
    \A id \in DOMAIN create_log :
        LET log == create_log[id] IN
        /\ \A i \in 1..Len(log) :
            /\ log[i].ev = "youki_start" =>
                  \E j \in 1..(i - 1) : log[j] = Ev("youki_create", TRUE)
            /\ log[i].ev \in {"insert", "index"} =>
                  \E j \in 1..(i - 1) : log[j] = Ev("youki_start", TRUE)
        /\ (InMap(id) \/ InIndex(id)) => Ev("youki_start", TRUE) \in Range(log)

\* A call that invoked create, then start, then inserted and indexed, beside
\* a call whose external create failed and that went no further.
C4_Witness ==
    \E id \in DOMAIN create_log, other \in DOMAIN create_log :
        /\ create_log[id] = <<Ev("bundle_build", TRUE), Ev("youki_create", TRUE),
                              Ev("youki_start", TRUE), Ev("insert", TRUE),
                              Ev("index", TRUE), Ev("return", TRUE)>>
        /\ InMap(id) /\ InIndex(id)
        /\ create_log[other] = <<Ev("bundle_build", TRUE),
                                 Ev("youki_create", FALSE), Ev("return", FALSE)>>

\* C5: no two create_container calls generate equal identifiers, and an
\* identifier whose entry was inserted and is gone from the primary map does
\* not come back into it.
NoReuse ==
    \A i \in 1..Len(generated), j \in 1..Len(generated) :
        i # j => generated[i] # generated[j]

NoReturn ==
    \A id \in KnownIds :
        (Ev("insert", TRUE) \in Range(create_log[id]) /\ ~InMap(id))
            => id \notin DOMAIN containers'

C5_IdsNeverReused == [](NoReuse) /\ [][NoReturn]_vars

\* Two calls have generated identifiers, the first was registered and removed
\* again, and the second is registered.
C5_Witness ==
    /\ Len(generated) = 2
    /\ generated[1] \in remove_ok /\ ~InMap(generated[1])
    /\ Ev("insert", TRUE) \in Range(create_log[generated[1]])
    /\ InMap(generated[2])

Last(log) == log[Len(log)]

Count(log, cmd) == Cardinality({i \in 1..Len(log) : log[i] = cmd})

\* The tasks in, or back from, a stop_container call.
InStop(t) == task[t].op = "stop"

StopReturned(t) == InStop(t) /\ task[t].pc = "idle"

\* C6: every stop_container call returns, whatever the runtime answers.
C6_StopReturns ==
    \A t \in Stoppers : (task[t].pc \in StopPcs) ~> (task[t].pc = "idle")

\* A call has returned after the container was reported non-terminal until
\* the deadline.
C6_Witness ==
    \E t \in Stoppers :
        /\ StopReturned(t) /\ task[t].result = "Ok"
        /\ task[t].log = <<"kill SIGTERM", "state nonterminal", "kill SIGKILL">>

C8_StopEscalation ==
    \A t \in Tasks :
        InStop(t) =>
        LET log == task[t].log IN
        /\ log # <<>> /\ log[1] = "kill SIGTERM"
        /\ Count(log, "kill SIGTERM") = 1
        /\ Count(log, "kill SIGKILL") <= 1
        /\ \A i \in 1..Len(log) :
              log[i] = "kill SIGKILL" =>
                  /\ task[t].sigkill_at >= task[t].deadline
                  /\ i = Len(log)
                  /\ i > 1 /\ log[i - 1] = "state nonterminal"
        /\ task[t].pc = "stop_sigkill" =>
              /\ Last(log) = "state nonterminal"
              /\ task[t].clock >= task[t].deadline
        /\ task[t].pc = "stop_sleep" =>
              /\ Last(log) = "state nonterminal"
              /\ task[t].clock < task[t].deadline
        /\ task[t].pc \in {"stop_update", "idle"} =>
              Last(log) # "state nonterminal"
        /\ ("state stopped" \in Range(log) \/ "state notfound" \in Range(log))
              => "kill SIGKILL" \notin Range(log)

\* A call has sent SIGTERM, seen the container non-terminal up to the
\* deadline, sent SIGKILL at the deadline and returned.
C8_Witness ==
    \E t \in Tasks :
        /\ StopReturned(t)
        /\ task[t].log = <<"kill SIGTERM", "state nonterminal", "kill SIGKILL">>
        /\ task[t].sigkill_at = task[t].deadline

\* C9 as claimed: when stop_container's wait loop has ended, by whichever
\* path, and the call returns, the cached status of the identifier, if it
\* has an entry, is "stopped".
C9_StoppedOnEveryExit ==
    [][\A t \in Tasks :
          StopReturns(t) =>
              (task[t].id \in DOMAIN containers' =>
                  containers'[task[t].id].status = "stopped")]_vars

\* C9 as amended: when the wait loop ends by a terminal status, by not-found
\* or by the deadline and SIGKILL, the cached status of the identifier, if it
\* has an entry, is "stopped" when the call returns; when a runtime-query
\* error aborts the loop the call returns the error and leaves the primary
\* map as it was.
C9_StoppedUnlessAborted ==
    [][\A t \in Tasks :
          StopReturns(t) =>
              /\ task'[t].result = "Ok" =>
                    (task[t].id \in DOMAIN containers' =>
                        containers'[task[t].id].status = "stopped")
              /\ task'[t].result = "Err" =>
                    /\ Last(task'[t].log) = "state error"
                    /\ containers' = containers]_vars

\* A call ended by the deadline and SIGKILL has returned and the entry of its
\* identifier is cached as stopped.
C9_Witness ==
    \E t \in Tasks :
        /\ StopReturned(t) /\ task[t].result = "Ok"
        /\ "kill SIGKILL" \in Range(task[t].log)
        /\ task[t].id \in DOMAIN containers
        /\ containers[task[t].id].status = "stopped"

\* C10: a state query that fails other than by not-found is the last thing
\* its stop_container call invokes, and the call has returned an error.
C10_QueryErrorReturned ==
    \A t \in Tasks :
        InStop(t) =>
            \A i \in 1..Len(task[t].log) :
                task[t].log[i] = "state error" =>
                    /\ i = Len(task[t].log)
                    /\ task[t].pc = "idle"
                    /\ task[t].result = "Err"

\* A call has returned the error of a state query that failed after the
\* container had been reported non-terminal.
C10_Witness ==
    \E t \in Tasks :
        /\ StopReturned(t) /\ task[t].result = "Err"
        /\ task[t].log = <<"kill SIGTERM", "state nonterminal", "state error">>

\* C11: a stop_container call whose first state query shows the container
\* stopped or not found returns success after that one query, and a
\* stop_container call that finds the entry as a successful one leaves it
\* (absent, or cached as stopped) leaves the primary map and the node index
\* as they were.
StoppedOrGoneAtOnce ==
    \A t \in Tasks :
        (StopReturned(t) /\ Len(task[t].log) >= 2
            /\ task[t].log[2] \in {"state stopped", "state notfound"})
        => (task[t].result = "Ok" /\ Len(task[t].log) = 2)

RepeatedStopChangesNothing ==
    \A t \in Tasks :
        (StopReturns(t) /\ Found(containers, task[t].id) \in {"none", "stopped"})
        => UNCHANGED <<containers, containers_by_node>>

C11_StopIdempotent ==
    [](StoppedOrGoneAtOnce) /\ [][RepeatedStopChangesNothing]_vars

\* A call has returned success on a container the runtime reported gone and
\* whose entry an earlier call had already cached as stopped.
C11_Witness ==
    \E t \in Tasks :
        /\ StopReturned(t) /\ task[t].result = "Ok"
        /\ task[t].log = <<"kill SIGTERM", "state notfound">>
        /\ task[t].found = "stopped"
        /\ Found(containers, task[t].id) = "stopped"

\* The observer is back from a remove_container call.
RemoveReturned(t) == task[t].op = "remove" /\ task[t].pc = "idle"

\* Task t returns an error from remove_container in this step.
RemoveFails(t) ==
    /\ task'[t] # task[t]
    /\ task'[t].op = "remove" /\ task'[t].pc = "idle"
    /\ task'[t].result = "Err"

BundleOf(id) == {path \in bundles : path[2] = id}

\* C12: a remove_container call whose external delete failed other than by
\* already-gone, timed out or could not be run has returned an error without
\* looking into the primary map, and the step in which it returns the error
\* leaves the primary map, the node index and the bundle directories as they
\* were.
DeleteFailureReturned ==
    \A t \in Observers :
        (task[t].op = "remove"
            /\ task[t].log[1][2] \in {"failed", "timeout", "io"})
        => (task[t].pc = "idle" /\ task[t].result = "Err"
            /\ task[t].found = "none" /\ task[t].node = NoNode)

FailedRemoveChangesNothing ==
    \A t \in Observers :
        RemoveFails(t) => UNCHANGED <<containers, containers_by_node, bundles>>

C12_EraseOnlyOnSuccessfulDelete ==
    [](DeleteFailureReturned) /\ [][FailedRemoveChangesNothing]_vars

\* A remove_container call on a registered container has returned the error
\* of a timed-out delete, and the entry, its index membership and its bundle
\* directory are there.
C12_Witness ==
    \E t \in Observers :
        /\ RemoveReturned(t) /\ task[t].result = "Err"
        /\ task[t].log = << <<"delete", "timeout">> >>
        /\ InMap(task[t].id) /\ InIndex(task[t].id)
        /\ BundleOf(task[t].id) # {}

\* Task t, in remove_container, looks into the primary map in this step and
\* finds no entry for its identifier.
RemoveFindsNoEntry(t) ==
    /\ task[t].pc = "remove_erase" /\ task'[t] # task[t]
    /\ ~InMap(task[t].id)

\* Task t calls remove_container in this step.
RemoveCalled(t) ==
    task[t].pc = "idle" /\ task'[t] # task[t] /\ task'[t].op = "remove"

\* C13: a remove_container call whose external delete is answered with
\* success or already-gone never returns an error; the call itself changes
\* nothing but the task; and when the call then finds no entry in the primary
\* map, as after an earlier remove_container, it returns success in that step
\* and leaves the primary map, the node index and the bundle directories as
\* they were.
DeleteGoneIsSuccess ==
    \A t \in Observers :
        (RemoveReturned(t) /\ task[t].log[1][2] \in {"ok", "gone"})
        => task[t].result = "Ok"

SecondRemoveChangesNothing ==
    \A t \in Observers :
        /\ RemoveCalled(t) =>
              UNCHANGED <<containers, containers_by_node, bundles>>
        /\ RemoveFindsNoEntry(t) =>
              /\ task'[t].pc = "idle" /\ task'[t].result = "Ok"
              /\ UNCHANGED <<containers, containers_by_node, bundles>>

C13_RemoveIdempotent ==
    [](DeleteGoneIsSuccess) /\ [][SecondRemoveChangesNothing]_vars

\* A container was created and returned, removed, and a second
\* remove_container on it, its delete answered already-gone, has found no
\* entry and returned success.
C13_Witness ==
    \E t \in Observers :
        /\ RemoveReturned(t) /\ task[t].result = "Ok"
        /\ task[t].log = << <<"delete", "gone">> >>
        /\ task[t].found = "none"
        /\ ReturnedOk(task[t].id) /\ task[t].id \notin early_remove
        /\ ~InMap(task[t].id)

\* C14 as claimed: once a remove_container called after create_container
\* returned the identifier has returned success, the identifier is in neither
\* the primary map nor a node's list and its bundle directory is gone.
C14_RemovedLeavesNothing ==
    \A id \in KnownIds :
        (ReturnedOk(id) /\ id \notin early_remove /\ id \in remove_ok)
        => (~InMap(id) /\ ~InIndex(id) /\ BundleOf(id) = {})

\* C15: for a stop_container call and a remove_container call on the same
\* identifier, one create_container returned and no remove_container was
\* called on before: the stop_container call, no state query of which
\* failed, returns success; the remove_container call, its delete answered
\* with success or already-gone, returns success; and once both have
\* returned success the identifier is neither in the primary map nor in a
\* node's list.
C15_ConcurrentStopRemoveSafe ==
    \A t \in Stoppers, o \in Observers :
        (/\ InStop(t) /\ task[o].op = "remove" /\ task[o].id = task[t].id
         /\ ReturnedOk(task[t].id) /\ task[t].id \notin early_remove)
        => /\ (StopReturned(t) /\ "state error" \notin Range(task[t].log))
                 => task[t].result = "Ok"
           /\ (RemoveReturned(o) /\ task[o].log[1][2] \in {"ok", "gone"})
                 => task[o].result = "Ok"
           /\ (StopReturned(t) /\ task[t].result = "Ok"
                 /\ RemoveReturned(o) /\ task[o].result = "Ok")
                 => (~InMap(task[t].id) /\ ~InIndex(task[t].id))

\* Both calls have returned success on a registered container, the
\* stop_container call after the remove_container call erased the entry it
\* had found running, and the runtime reported the container gone to both.
C15_Witness ==
    \E t \in Stoppers, o \in Observers :
        /\ StopReturned(t) /\ task[t].result = "Ok"
        /\ task[o].id = task[t].id
        /\ ReturnedOk(task[t].id) /\ task[t].id \notin early_remove
        /\ task[t].log = <<"kill SIGTERM", "state notfound">>
        /\ task[t].found = "none"
        /\ RemoveReturned(o) /\ task[o].result = "Ok"
        /\ task[o].log = << <<"delete", "gone">> >>
        /\ task[o].found = "running"
        /\ ~InMap(task[t].id) /\ ~InIndex(task[t].id)

\* The identifiers the calls that take this step act on.
Acting ==
    {task[t].id : t \in {u \in DOMAIN task : task'[u] # task[u]}}
    \cup {task'[t].id : t \in {u \in DOMAIN task : task'[u] # task[u]}}

\* The entry, the cached status, the index membership and the bundle
\* directory of id are after this step what they were before.
Untouched(id) ==
    /\ (id \in DOMAIN containers') <=> (id \in DOMAIN containers)
    /\ id \in DOMAIN containers => containers'[id] = containers[id]
    /\ \A node \in NodeIds : InIndexOf(node, id)' <=> InIndexOf(node, id)
    /\ BundleOf(id)' = BundleOf(id)

\* C17: a step of a create_container, stop_container or remove_container
\* call changes neither the entry, nor the cached status, nor the index
\* membership, nor the bundle directory of an identifier other than the
\* call's own.
C17_OtherIdsUntouched ==
    [][\A id \in KnownIds : id \notin Acting => Untouched(id)]_vars

\* Of two registered containers one has been removed, while the other is
\* still registered, listed, on disk, and has been stopped.
C17_Witness ==
    \E a \in KnownIds, b \in KnownIds :
        /\ a # b /\ ReturnedOk(a) /\ ReturnedOk(b)
        /\ a \in remove_ok /\ ~InMap(a) /\ ~InIndex(a)
        /\ InMap(b) /\ InIndex(b) /\ BundleOf(b) # {}
        /\ containers[b].status = "stopped"

\* The observer is back from a get_container_status call.
StatusReturned(t) == task[t].op = "status" /\ task[t].pc = "idle"

\* What youki_state answered the call of task t.
Queried(t) == task[t].log[1][2]

\* C18: a get_container_status call returns the runtime's status when the
\* state query succeeded; has looked into the primary map only when the query
\* said not-found; and then returns the cached status of the entry it found,
\* or the not-found error when it found none.
C18_StatusResolution ==
    \A t \in Observers :
        task[t].op = "status" =>
        LET res == Queried(t)
            id == task[t].id
        IN /\ task[t].pc = "status_read" => res.tag = "ContainerNotFound"
           /\ task[t].found # "none" => res.tag = "ContainerNotFound"
           /\ (StatusReturned(t) /\ res.tag = "Ok") =>
                 /\ task[t].result = "Ok"
                 /\ task[t].value = ContainerStatus(id, res.status, None)
           /\ (StatusReturned(t) /\ res.tag = "ContainerNotFound") =>
                 IF task[t].found # "none"
                 THEN /\ task[t].result = "Ok"
                      /\ task[t].value =
                            ContainerStatus(id, task[t].found, None)
                 ELSE /\ task[t].result = "Err"
                      /\ task[t].value = NotFoundError

\* A call has returned the status "stopped" the runtime reported for a
\* container the primary map caches as running.
C18_Witness ==
    \E t \in Observers :
        /\ StatusReturned(t) /\ task[t].result = "Ok"
        /\ Queried(t).tag = "Ok"
        /\ task[t].value.state = "stopped"
        /\ Found(containers, task[t].id) = "running"

\* C19: a get_container_status call whose state query failed other than by
\* not-found returns success with the state "unknown" and the text of the
\* failure as error message, and the only error the operation returns is the
\* not-found one, when the runtime said not-found and the primary map held no
\* entry.
C19_StatusDegradesOnFailure ==
    \A t \in Observers :
        StatusReturned(t) =>
        LET res == Queried(t) IN
        /\ res.tag \in {"CommandFailed", "InvalidState", "Timeout", "Io"} =>
              /\ task[t].result = "Ok"
              /\ task[t].value.state = "unknown"
              /\ task[t].value.error_message = <<res.tag, res.message>>
        /\ task[t].result = "Err" =>
              /\ res.tag = "ContainerNotFound" /\ task[t].found = "none"
              /\ task[t].value = NotFoundError

\* A call on a registered container has returned the degraded record of a
\* state query that was refused.
C19_Witness ==
    \E t \in Observers :
        /\ StatusReturned(t) /\ task[t].result = "Ok"
        /\ InMap(task[t].id)
        /\ task[t].value =
              ContainerStatus(task[t].id, "unknown",
                  <<"CommandFailed", <<"permission", "denied">> >>)

\* The observer is back from a list_containers call.
ListReturned(t) == task[t].op = "list" /\ task[t].pc = "idle"

\* Task t calls list_containers in this step.
ListCalled(t) ==
    task[t].pc = "idle" /\ task'[t] # task[t] /\ task'[t].op = "list"

\* The records a state query's answer allows for id.
RecordsFor(id, res) ==
    IF res.tag = "Ok" THEN {ContainerStatus(id, res.status, None)}
    ELSE IF res.tag = "ContainerNotFound"
    THEN {ContainerStatus(id, st, None) : st \in {"running", "stopped"}}
         \cup {ContainerStatus(id, "unknown",
                   <<"RuntimeError", <<"Container", "not", "found">> >>)}
    ELSE {ContainerStatus(id, "unknown", <<res.tag, res.message>>)}

\* C20: list_containers works on the node's list as it was when the call read
\* it, the empty list for a node that has none; it never returns an error;
\* the list it returns has one record per identifier read, in that order;
\* and the record of an identifier is the runtime's status, the cached one,
\* or a record with state "unknown" and the error's text when the state
\* query failed or the identifier was found nowhere.
OneRecordPerIdentifier ==
    \A t \in Observers :
        task[t].op = "list" =>
        /\ task[t].result # "Err"
        /\ Len(task[t].value) <= Len(task[t].ids)
        /\ ListReturned(t) => Len(task[t].value) = Len(task[t].ids)
        /\ \A i \in 1..Len(task[t].value) :
              task[t].value[i] \in RecordsFor(task[t].ids[i], task[t].log[i][2])

ListReadsIndex ==
    \A t \in Observers :
        ListCalled(t) =>
            task'[t].ids =
                IF task'[t].node \in DOMAIN containers_by_node
                THEN containers_by_node[task'[t].node] ELSE <<>>

C20_ListAlwaysComplete ==
    [](OneRecordPerIdentifier) /\ [][ListReadsIndex]_vars

\* A call has returned two records: for the first identifier, removed after
\* the list was read, an "unknown" one saying not found, and for the second
\* the runtime's status.
C20_Witness ==
    \E t \in Observers :
        /\ ListReturned(t) /\ task[t].result = "Ok"
        /\ Len(task[t].ids) = 2
        /\ task[t].value[1] =
              ContainerStatus(task[t].ids[1], "unknown",
                  <<"RuntimeError", <<"Container", "not", "found">> >>)
        /\ ~InMap(task[t].ids[1]) /\ task[t].ids[1] \in remove_ok
        /\ task[t].value[2] = ContainerStatus(task[t].ids[2], "running", None)
        /\ task[t].log[2][2].tag = "Ok"

\* Where a call's next step runs an external command or does filesystem
\* I/O.
IoPcs ==
    {"create_youki_create", "create_youki_start", "stop_poll", "stop_sigkill",
     "remove_cleanup", "list_query"}

\* C16 as claimed: no call holds a lock of the Registry while it runs an
\* external command or does filesystem I/O. (The node index's guard is taken
\* and dropped within one step of every call; the primary map's write guard
\* is the one a call can hold from one step to the next.)
C16_NoLockHeldOverIo ==
    \A t \in DOMAIN task : task[t].pc \in IoPcs => containers_lock # t

\* ---- C21
\* What a watched helper call was given and what the tool did.
RunOf(t) == task[t].log[1][2]

ArgsOf(t) == task[t].log[1][1]

HelperCalled(t, op) == task[t].op = op /\ task[t].pc = "idle"

\* The tool answered in time with a non-zero exit status.
ExitedNonZero(t) ==
    /\ RunOf(t).kind = "exits"
    /\ RunOf(t).dur < command_timeout
    /\ ~RunOf(t).out.success

NotRunningTexts ==
    { <<"container", "not", "running">>, <<"no", "such", "process">> }

\* C21: youki_kill, for SIGTERM and for SIGKILL, returns success when the
\* tool exits non-zero with a stderr reporting "not running" or "no such
\* process", and a command-failed error for a non-zero exit with any other
\* stderr.
C21_KillIdempotentOnNotRunning ==
    \A t \in Observers :
        (HelperCalled(t, "youki_kill") /\ ExitedNonZero(t)) =>
            /\ ArgsOf(t)[3] \in Signals
            /\ task[t].result =
                  IF RunOf(t).out.stderr \in NotRunningTexts
                  THEN "Ok" ELSE "CommandFailed"

C21_Witness ==
    \E t \in Observers :
        /\ HelperCalled(t, "youki_kill")
        /\ ExitedNonZero(t)
        /\ ArgsOf(t)[3] = "SIGKILL"
        /\ RunOf(t).out.stderr = <<"no", "such", "process">>
        /\ task[t].result = "Ok"

\* ---- C22
SaysNotRunning(text) ==
    Contains(text, <<"not", "running">>)
    \/ Contains(text, <<"no", "such", "process">>)

SaysNotThere(text) ==
    Contains(text, <<"not", "exist">>) \/ Contains(text, <<"not", "found">>)

\* What a helper returns for "the container is already gone".
GoneResult(op) == IF op = "youki_state" THEN "ContainerNotFound" ELSE "Ok"

Classifying == {"youki_kill", "youki_delete", "youki_state"}

\* C22 as stated: for each of kill, delete and the state query, a non-zero
\* exit whose stderr contains any of "not found", "not exist", "not running"
\* and "no such process" is classified as already-gone (success for kill and
\* delete, container-not-found for the state query), never as command-failed.
C22_GoneClassificationUniform ==
    \A t \in Observers :
        (/\ task[t].op \in Classifying
         /\ task[t].pc = "idle"
         /\ ExitedNonZero(t)
         /\ \/ SaysNotThere(RunOf(t).out.stderr)
            \/ SaysNotRunning(RunOf(t).out.stderr))
        => task[t].result = GoneResult(task[t].op)

\* C22: each command has its own phrases. A non-zero exit is already-gone
\* for kill exactly when stderr contains "not running" or "no such process",
\* and for delete and the state query exactly when it contains "not exist"
\* or "not found"; every other non-zero exit is command-failed.
C22_GoneClassificationPerCommand ==
    \A t \in Observers :
        (/\ task[t].op \in Classifying
         /\ task[t].pc = "idle"
         /\ ExitedNonZero(t))
        => task[t].result =
              IF \/ /\ task[t].op = "youki_kill"
                    /\ SaysNotRunning(RunOf(t).out.stderr)
                 \/ /\ task[t].op # "youki_kill"
                    /\ SaysNotThere(RunOf(t).out.stderr)
              THEN GoneResult(task[t].op)
              ELSE "CommandFailed"

C22_Witness ==
    \E t \in Observers :
        /\ HelperCalled(t, "youki_kill")
        /\ ExitedNonZero(t)
        /\ SaysNotThere(RunOf(t).out.stderr)
        /\ task[t].result = "CommandFailed"

\* ---- C23
Invoking ==
    {"youki_create", "youki_start", "youki_kill", "youki_delete",
     "youki_state", "verify_binary"}

\* C23: every invocation of the external binary (create, start, kill,
\* delete, state query, and the binary check at construction) is bounded by
\* the command timeout: the caller waits no longer than command_timeout, and
\* when the command has not completed by then a Timeout error carrying the
\* formatted command line is produced.
C23_EveryInvocationTimesOut ==
    \A t \in Observers :
        (task[t].op \in Invoking /\ task[t].pc = "idle") =>
            /\ task[t].clock <= command_timeout
            /\ (RunOf(t).kind = "exits" /\ RunOf(t).dur >= command_timeout)
                  => /\ task[t].result = "Timeout"
                     /\ task[t].value = CommandLine(ArgsOf(t))

\* ---- C24
StateQueries ==
    {"state stopped", "state nonterminal", "state notfound", "state error"}

Events(id, ev) ==
    Cardinality({i \in 1..Len(create_log[id]) : create_log[id][i].ev = ev})

\* In a stop_container call's log, a state query is followed by another
\* command only when it showed a non-terminal status.
QueryRepeatedOnlyAfterNonTerminal(log) ==
    \A i \in 1..(Len(log) - 1) :
        log[i] \in StateQueries => log[i] = "state nonterminal"

\* C24: no operation retries a failed external command. In one call of
\* create_container, remove_container or get_container_status each external
\* subcommand is invoked at most once; in one call of stop_container SIGTERM
\* and SIGKILL are each invoked at most once, and the state query is
\* repeated only after a successful response reporting a non-terminal
\* status, never after a failed query.
C24_NoRetries ==
    /\ \A id \in DOMAIN create_log :
          Events(id, "youki_create") <= 1 /\ Events(id, "youki_start") <= 1
    /\ \A t \in Observers :
          /\ task[t].op \in {"remove", "status"} => Len(task[t].log) <= 1
          /\ task[t].op = "stop" =>
                /\ Count(task[t].log, "kill SIGTERM") <= 1
                /\ Count(task[t].log, "kill SIGKILL") <= 1
                /\ QueryRepeatedOnlyAfterNonTerminal(task[t].log)
                /\ (task[t].pc \in {"stop_sleep", "stop_poll"}
                    /\ Len(task[t].log) > 1) =>
                      Last(task[t].log) = "state nonterminal"

\* A stop_container call that a failed state query ended, after a query
\* that showed a non-terminal status.
C24_Witness ==
    \E t \in Observers :
        /\ StopReturned(t)
        /\ task[t].result = "Err"
        /\ task[t].log = <<"kill SIGTERM", "state nonterminal", "state error">>

\* ---- C25
\* create_container on id has returned an error from a step after the one
\* that creates the bundle directory.
FailedAfterBundleDir(id) ==
    /\ id \in DOMAIN create_log
    /\ ReturnedErr(id)
    /\ Ev("bundle_dir", FALSE) \notin Range(create_log[id])

\* C25: after create_container failed at a step following the creation of
\* the bundle directory, a remove_container for that identifier that returns
\* success leaves the identifier's bundle directory absent from disk.
C25_RemoveReclaimsFailedCreate ==
    \A t \in Observers :
        (/\ RemoveReturned(t)
         /\ task[t].result = "Ok"
         /\ FailedAfterBundleDir(task[t].id)
         /\ task[t].id \notin early_remove)
        => BundleOf(task[t].id) = {}

\* ---- C26
InitReturned(t) == task[t].op = "init_node" /\ task[t].pc = "idle"

\* Task t is called with, and returns from, init_node in this step.
InitNodeStep(t) ==
    /\ task'[t].op = "init_node"
    /\ \A u \in DOMAIN task : u # t => task'[u] = task[u]
    /\ UNCHANGED <<containers, bundles, next_uuid, generated, create_log>>

\* init_node succeeds when create_dir_all made the directory or found it.
InitSucceedsOnExistingDir ==
    \A t \in Observers :
        (InitReturned(t) /\ task[t].log[1][2] \in {"created", "exists"})
        => task[t].result = "Ok"

\* An init_node step leaves every existing list as it is and adds at most
\* an empty list for its own node.
InitKeepsLists ==
    \A t \in Observers :
        InitNodeStep(t) =>
            /\ \A n \in DOMAIN containers_by_node :
                  /\ n \in DOMAIN containers_by_node'
                  /\ containers_by_node'[n] = containers_by_node[n]
            /\ \A n \in DOMAIN containers_by_node' \ DOMAIN containers_by_node :
                  /\ n = task'[t].node
                  /\ task'[t].result = "Ok"
                  /\ containers_by_node'[n] = <<>>
            /\ (task'[t].result = "Ok") =>
                  task'[t].node \in DOMAIN containers_by_node'

\* C26: init_node is idempotent. It succeeds whether or not the node's
\* bundle directory already exists, creates an empty index list for the node
\* only when the node has none, and a repeated or later call, also one
\* interleaved with create_container on the node, never empties or alters an
\* existing index list.
C26_InitNodeIdempotent ==
    [](InitSucceedsOnExistingDir) /\ [][InitKeepsLists]_vars

\* A repeated init_node has succeeded on an existing directory while the
\* node's list holds a container.
C26_Witness ==
    \E t \in Observers :
        /\ InitReturned(t)
        /\ task[t].log[1][2] = "exists"
        /\ task[t].result = "Ok"
        /\ task[t].node \in DOMAIN containers_by_node
        /\ containers_by_node[task[t].node] # <<>>

\* ---- C27
\* A watched create_container call whose prepare steps reached the builder.
Built(t) == task[t].op = "create" /\ Len(task[t].log) >= 2

RequestOf(t) == task[t].log[1][2]

BuilderOf(t) == task[t].log[2][2]

\* C27: create_container applies resource limits only when strictly
\* positive and independently of each other: the bundle builder receives a
\* CPU limit if and only if the requested CPU cores are greater than 0, and
\* a memory limit if and only if the requested memory megabytes are greater
\* than 0; a limit it receives is the requested value.
C27_LimitsOnlyWhenPositive ==
    \A t \in Observers :
        Built(t) =>
            LET cpu_cores == RequestOf(t)[1]
                memory_mb == RequestOf(t)[2]
            IN /\ BuilderOf(t).cpu_limit # None
                    <=> (~cpu_cores.nan /\ cpu_cores.v > 0)
               /\ BuilderOf(t).memory_limit # None <=> memory_mb > 0
               /\ BuilderOf(t).cpu_limit # None
                    => BuilderOf(t).cpu_limit = <<cpu_cores>>
               /\ BuilderOf(t).memory_limit # None
                    => BuilderOf(t).memory_limit = <<memory_mb>>

\* A request with CPU cores above zero and no memory: the builder has the
\* CPU limit alone, and the call went on to the external commands.
C27_Witness ==
    \E t \in Observers :
        /\ Built(t)
        /\ task[t].pc = "create_youki_start"
        /\ RequestOf(t) = <<[nan |-> FALSE, v |-> 1], 0>>
        /\ BuilderOf(t).cpu_limit = <<[nan |-> FALSE, v |-> 1]>>
        /\ BuilderOf(t).memory_limit = None

\* ---- C28
LogsReturned(t) == task[t].op = "get_logs" /\ task[t].pc = "idle"

FileOf(t) == task[t].log[1][2]

TailOf(t) == task[t].log[2][2]

\* The log file was there and was read.
LogRead(t) == LogsReturned(t) /\ FileOf(t).exists /\ FileOf(t).readable

Min(a, b) == IF a < b THEN a ELSE b

\* The lines of a text: what stands between its newlines, a last line with
\* no newline included, each without its line ending.
RECURSIVE LinesOf(_, _)
LinesOf(text, line) ==
    IF Len(text) = 0 THEN IF Len(line) = 0 THEN <<>> ELSE <<line>>
    ELSE IF Head(text) = LF
         THEN <<IF Len(line) > 0 /\ line[Len(line)] = CR
                THEN SubSeq(line, 1, Len(line) - 1) ELSE line>>
              \o LinesOf(Tail(text), <<>>)
         ELSE LinesOf(Tail(text), Append(line, Head(text)))

\* C28: get_logs with tail = N returns exactly the last min(N, L) lines of
\* an L-line log file, in their original order, and with tail absent the
\* whole file content.
C28_TailReturnsLastLines ==
    \A t \in Observers :
        LogRead(t) =>
            /\ task[t].result = "Ok"
            /\ TailOf(t) = None => task[t].value = FileOf(t).content
            /\ TailOf(t) # None =>
                  LET lines == LinesOf(FileOf(t).content, <<>>)
                      L == Len(lines)
                      n == Min(TailOf(t)[1], L)
                  IN task[t].value =
                        Join([i \in 1..n |-> lines[L - n + i]])

\* Of a two-line file the last line is returned, without its newline.
C28_Witness ==
    \E t \in Observers :
        /\ LogRead(t)
        /\ FileOf(t).content = <<"a", LF, "b", LF>>
        /\ TailOf(t) = <<1>>
        /\ task[t].result = "Ok"
        /\ task[t].value = <<"b">>

\* ---- C29
\* C29: get_logs for a container whose log file does not exist returns an
\* empty result and not an error, for every tail option.
C29_MissingLogIsEmpty ==
    \A t \in Observers :
        (LogsReturned(t) /\ ~FileOf(t).exists) =>
            task[t].result = "Ok" /\ task[t].value = <<>>

C29_Witness ==
    \E t \in Observers :
        /\ LogsReturned(t)
        /\ ~FileOf(t).exists
        /\ TailOf(t) = <<2>>
        /\ task[t].result = "Ok"
        /\ task[t].value = <<>>

\* ---- C30
StatsReturned(t) == task[t].op = "get_stats" /\ task[t].pc = "idle"

CpuStatOf(t) == task[t].log[1][2]

\* The text's usage line is "usage_usec N": its one line that starts with
\* usage_usec is that word followed by the numeral of N.
UsageLineIs(text, N) ==
    \E i \in 1..Len(text) :
        /\ text[i] = Line(FALSE, <<Word("usage_usec"), Numeral(N)>>)
        /\ \A j \in 1..Len(text) : StartsWithUsage(text[j]) => j = i

\* C30: for every CPU-stat text whose usage line is "usage_usec N", N any
\* unsigned 64-bit value, the derived CPU usage equals N multiplied by 1000
\* (12345 gives 12,345,000), with no overflow or wrap-around.
C30_UsageTimesThousand ==
    \A t \in Observers, N \in StatValues :
        (/\ StatsReturned(t)
         /\ CpuStatOf(t).exists
         /\ UsageLineIs(CpuStatOf(t).content, N))
        => /\ task[t].result = "Ok"
           /\ task[t].value.cpu_usage_ns \div 1000 = N
           /\ task[t].value.cpu_usage_ns % 1000 = 0

\* ---- C31
MemoryOf(t) == task[t].log[2][2]

\* The lines of a text that carry a usage value: they start with usage_usec
\* and have a second word.
UsageLines(text) ==
    {i \in 1..Len(text) :
        StartsWithUsage(text[i]) /\ Len(text[i].words) >= 2}

\* The CPU field fails: the file is missing, no line carries a usage value,
\* or the first that does carries no numeral of a u64.
CpuFieldFails(file) ==
    \/ ~file.exists
    \/ UsageLines(file.content) = {}
    \/ \E i \in UsageLines(file.content) :
          /\ \A j \in UsageLines(file.content) : i <= j
          /\ file.content[i].words[2].kind # "numeral"

\* The memory field fails: the file is missing or holds no numeral.
MemoryFieldFails(file) ==
    ~file.exists \/ file.content[1].kind # "numeral"

\* C31: get_stats never fails. A missing CPU-stat file, a missing memory
\* file, a missing usage field or a non-numeric value yields 0 for that
\* field only, and the failure of one field does not change the value
\* reported for the other: the memory usage is the numeral of the memory
\* file whatever the CPU-stat file holds.
C31_StatsNeverFail ==
    \A t \in Observers :
        StatsReturned(t) =>
            /\ task[t].result = "Ok"
            /\ CpuFieldFails(CpuStatOf(t)) => task[t].value.cpu_usage_ns = 0
            /\ MemoryFieldFails(MemoryOf(t))
                  => task[t].value.memory_usage_bytes = 0
            /\ ~MemoryFieldFails(MemoryOf(t))
                  => task[t].value.memory_usage_bytes
                        = MemoryOf(t).content[1].v
            /\ \A N \in StatValues :
                  (CpuStatOf(t).exists
                   /\ UsageLineIs(CpuStatOf(t).content, N)
                   /\ N <= MaxWord \div 1000)
                  => task[t].value.cpu_usage_ns = N * 1000

\* ---- C33
\* Every cached status is "running" or "stopped", and an identifier is
\* inserted into the primary map at most once.
StatusesKnown ==
    /\ \A id \in DOMAIN containers :
          containers[id].status \in {"running", "stopped"}
    /\ \A id \in DOMAIN create_log : Events(id, "insert") <= 1

\* In a step, an entry that appears is "running", and an entry that stays
\* keeps its status or becomes "stopped".
StatusStep ==
    \A id \in DOMAIN containers' :
        IF id \in DOMAIN containers
        THEN containers'[id].status \in {containers[id].status, "stopped"}
        ELSE containers'[id].status = "running"

\* C33: the Registry's cached status is monotone. An entry is inserted with
\* status "running", the only other value it ever takes is "stopped", and
\* once "stopped" it never returns to "running", under any interleaving of
\* create_container, stop_container and remove_container.
C33_StatusMonotone == [](StatusesKnown) /\ [][StatusStep]_vars

\* A stop_container call found the entry running and left it stopped.
C33_Witness ==
    \E t \in Stoppers :
        /\ StopReturned(t)
        /\ task[t].result = "Ok"
        /\ task[t].found = "running"
        /\ InMap(task[t].id)
        /\ containers[task[t].id].status = "stopped"

\* ---- C34
\* Task t waits for a lock that task u holds.
WaitsFor(t, u) == t # u /\ Wants(t) \cap Holds(u) # {}

Waiting(t) == \E u \in DOMAIN task : WaitsFor(t, u)

\* The steps a task can take.
Step(t) ==
    \/ \E node \in NodeIds : InitNode(t, node)
    \/ Create(t) \/ Remove(t) \/ Stop(t) \/ Status(t) \/ List(t)

\* C34: the Registry locks never deadlock. Under any interleaving of
\* init_node, create_container, stop_container, remove_container,
\* get_container_status and list_containers calls, a lock is held only by a
\* call that is going to drop it, a task that holds a lock waits for none
\* (no cycle of waiting), and every task in a call that waits for no lock
\* can take its next step.
C34_NoDeadlock ==
    /\ containers_lock # NoTask =>
          task[containers_lock].pc \in {"remove_cleanup", "remove_index"}
    /\ \A t \in DOMAIN task, u \in DOMAIN task :
          WaitsFor(t, u) => ~Waiting(u)
    /\ \A t \in Tasks :
          (task[t].pc # "idle" /\ ~Waiting(t)) => ENABLED Step(t)

\* A stop_container call waits for the primary map's lock while a
\* remove_container call holds it and is about to take the node index's.
C34_Witness ==
    \E t \in Stoppers, u \in Creators :
        /\ task[t].pc = "stop_update"
        /\ WaitsFor(t, u)
        /\ task[u].pc = "remove_index"

\* ---- C35
\* A task of Stoppers takes a step of its stop_container call.
StopStep(t) == task'[t] # task[t] /\ task'[t].op = "stop"

\* The entry of id but for its cached status.
Identity(cs, id) == [cs[id] EXCEPT !.status = "any"]

\* C35: a step of stop_container changes nothing but the cached status of
\* an existing entry. It neither inserts nor removes an entry of the primary
\* map (so it cannot bring back an entry a concurrent remove_container
\* erased), changes no node index list and no bundle directory, leaves every
\* entry's node id, bundle path and pid as they were, and touches the status
\* of its own identifier only.
C35_StopChangesStatusOnly ==
    [][\A t \in Stoppers :
          StopStep(t) =>
            /\ DOMAIN containers' = DOMAIN containers
            /\ containers_by_node' = containers_by_node
            /\ bundles' = bundles
            /\ \A id \in DOMAIN containers :
                  /\ Identity(containers', id) = Identity(containers, id)
                  /\ id # task'[t].id => containers'[id] = containers[id]]_vars

\* A stop_container call has returned success on an identifier that a
\* concurrent remove_container had erased, and the entry is still absent.
C35_Witness ==
    \E t \in Stoppers :
        /\ StopReturned(t)
        /\ task[t].result = "Ok"
        /\ task[t].found = "none"
        /\ ReturnedOk(task[t].id)
        /\ task[t].id \in remove_ok
        /\ ~InMap(task[t].id)

\* ---- C36
\* The observer takes a step of a get_container_status or list_containers
\* call.
ReadStep(t) == task'[t] # task[t] /\ task'[t].op \in {"status", "list"}

\* C36: get_container_status and list_containers are read-only. No step of
\* them, whatever the runtime answers, changes the primary map, a cached
\* status or a node index list.
C36_QueriesReadOnly ==
    [][\A t \in Observers :
          ReadStep(t) =>
            /\ containers' = containers
            /\ containers_by_node' = containers_by_node]_vars

\* A get_container_status call answered from the cache, the runtime having
\* said not-found, and the entry is still there.
C36_Witness ==
    \E t \in Observers :
        /\ StatusReturned(t)
        /\ task[t].result = "Ok"
        /\ task[t].found = "running"
        /\ InMap(task[t].id)
        /\ containers[task[t].id].status = "running"

\* ---- C37
\* The external commands of a watched create_container call, in order, each
\* with what the tool answered.
CommandsOf(t) == SubSeq(task[t].log, 3, Len(task[t].log))

\* C37: a failed create_container issues no compensating command. When the
\* external create succeeded and the external start failed, timed out or
\* could not be run, create_container has returned an error with the start
\* as its last external command (no kill, no delete), and the identifier is
\* in neither map of the Registry.
C37_NoCompensation ==
    \A t \in Observers :
        (/\ Built(t)
         /\ Len(CommandsOf(t)) >= 2
         /\ CommandsOf(t)[1] = <<"create", "ok">>
         /\ CommandsOf(t)[2][2] # "ok")
        => /\ CommandsOf(t)[2][1] = "start"
           /\ Len(CommandsOf(t)) = 2
           /\ task[t].pc = "idle" /\ task[t].result = "Err"
           /\ ~InMap(task[t].id) /\ ~InIndex(task[t].id)
           /\ BundleOf(task[t].id) # {}

\* The external create succeeded and the start timed out.
C37_Witness ==
    \E t \in Observers :
        /\ Built(t)
        /\ CommandsOf(t) = << <<"create", "ok">>, <<"start", "timeout">> >>
        /\ task[t].result = "Err"
        /\ ~InMap(task[t].id)

\* ---- C38
\* A watched stop_container call whose SIGTERM returned an error.
SigtermFailed(t) == task[t].op = "stop" /\ task[t].warned # <<>>

LastInvoked(t) == task[t].log[Len(task[t].log)]

\* C38: a failure of the initial SIGTERM does not abort stop_container.
\* Whatever error the SIGTERM returned, the call is in the wait loop or past
\* it, it has returned only after at least one state query, and its result
\* is the loop's: an error exactly when the last state query failed with an
\* error other than not-found.
C38_SigtermFailureIgnored ==
    \A t \in Observers :
        SigtermFailed(t)
        => /\ task[t].log[1] = "kill SIGTERM"
           /\ task[t].pc \in StopPcs \cup {"idle"}
           /\ task[t].pc = "idle"
              => /\ Len(task[t].log) >= 2
                 /\ task[t].log[2] \in {Observed(youki_state(r)) : r \in ExecResults}
                 /\ task[t].result = "Err" <=> LastInvoked(t) = "state error"
                 /\ task[t].result = "Ok"
                    <=> LastInvoked(t) \in {"state stopped", "state notfound",
                                           "kill SIGKILL"}

\* The SIGTERM timed out, the loop saw the container stopped, and the call
\* returned Ok.
C38_Witness ==
    \E t \in Observers :
        /\ task[t].op = "stop"
        /\ task[t].warned = <<"Timeout">>
        /\ task[t].pc = "idle"
        /\ task[t].result = "Ok"
        /\ LastInvoked(t) = "state stopped"

\* ---- C39
\* A request with an empty name, no containers, or zero replicas.
Invalid(request) ==
    \/ request.name = <<>>
    \/ request.containers = <<>>
    \/ request.replicas = 0

Rejected(h) ==
    /\ handler[h].response # None
    /\ handler[h].response[1].tag = "validation_error"

\* C39: create_workload rejects an invalid request before any side effect.
\* A handler given a request with an empty name, no containers or zero
\* replicas has returned a validation error without a call to the state
\* store or the channel; the step that returns the validation error leaves
\* the store and the channel as they were; and no workload in the store or
\* on the channel has an empty name, no containers or zero replicas.
C39_InvalidRejectedBeforeEffects ==
    /\ [](/\ \A h \in Handlers :
                (handler[h].request # None /\ Invalid(handler[h].request[1]))
                => /\ handler[h].pc = "idle"
                   /\ Rejected(h)
                   /\ handler[h].workload = None
                   /\ handler[h].log = <<>>
          /\ \A id \in DOMAIN state_store : ~Invalid(state_store[id])
          /\ \A w \in Range(workload_rx.queue) : ~Invalid(w))
    /\ [][\A h \in Handlers :
            (handler'[h] # handler[h] /\ Rejected(h)')
            => UNCHANGED <<state_store, workload_rx, submitted,
                           next_workload>>]_vars

\* A request with zero replicas was rejected while another workload is in
\* the store and on the channel.
C39_Witness ==
    \E h \in Handlers :
        /\ Rejected(h)
        /\ handler[h].request[1].replicas = 0
        /\ handler[h].response[1].message = "Replicas must be at least 1"
        /\ state_store # <<>>
        /\ workload_rx.queue # <<>>

\* ---- C40
\* A handler's call has returned an error.
ReturnedError(h) ==
    /\ handler[h].pc = "idle"
    /\ handler[h].response # None
    /\ handler[h].response[1].tag # "Created"

\* A handler is between the store and the send with the workload.
BeingSubmitted(id) ==
    \E h \in Handlers :
        /\ handler[h].pc = "send"
        /\ handler[h].workload[1].id = id

\* C40: create_workload leaves the state store unchanged whenever it returns
\* an error. The workload of a call that returned an error is not in the
\* store, and every workload in the store was sent on the channel or is
\* about to be.
C40_StoreUnchangedOnError ==
    /\ \A h \in Handlers :
          (ReturnedError(h) /\ handler[h].workload # None)
          => handler[h].workload[1].id \notin DOMAIN state_store
    /\ \A id \in DOMAIN state_store : id \in submitted \/ BeingSubmitted(id)

\* ---- C32
WatchersOf(id) == {w \in watchers : w.id = id}

\* A follow request for id is answered in this step.
FollowStep(id) == \E t \in Tasks \cup Observers : Follow(t, id)

\* C32: at most one log watcher task is active per container identifier at
\* any time, the one named by the identifier's handle; and a follow request
\* for a container that already has a watcher adds one subscriber to that
\* watcher's sender and spawns no watcher.
C32_OneWatcherPerContainer ==
    /\ [](\A id \in StreamIds :
             /\ Cardinality(WatchersOf(id)) <= 1
             /\ WatchersOf(id) =
                   IF id \in DOMAIN log_streams
                   THEN {Watcher(id, log_streams[id]._watcher)} ELSE {})
    /\ [][\A id \in StreamIds :
            (FollowStep(id) /\ WatchersOf(id) # {})
            => /\ watchers' = watchers
               /\ next_watcher' = next_watcher
               /\ log_streams'[id]._watcher = log_streams[id]._watcher
               /\ log_streams'[id].sender = log_streams[id].sender + 1]_vars

\* A watched follow request found a watcher and subscribed: the container
\* has two subscribers and one watcher.
C32_Witness ==
    \E t \in Observers :
        /\ task[t].op = "follow"
        /\ task[t].log = << <<"follow", "subscribed">> >>
        /\ task[t].id \in DOMAIN log_streams
        /\ log_streams[task[t].id].sender = 2
        /\ Cardinality(WatchersOf(task[t].id)) = 1

====
